---- MODULE Spec2Model ----
(***************************************************************************)
(* A model of pyrin: the admin page registry and its guarded operations,   *)
(* the attribute reflection of entities (model mixins) and the             *)
(* entity <-> dict conversion (to_dict / from_dict).                       *)
(*                                                                         *)
(* Names (attribute keys, register names) are sequences of one-character   *)
(* strings, so that str.lower() and str.startswith('_') are computed.      *)
(***************************************************************************)
EXTENDS Integers, Sequences, FiniteSets, TLC

VARIABLES
    admin_pages,      \* AdminManager._admin_pages: lower-cased register name -> page
    admin_entities,   \* AdminManager._admin_entities: entity class -> page
    last,             \* the last AdminManager call: its name, register name and outcome
    invoked,          \* the admin page operation the last call reached, if any
    page,             \* an admin page under inspection (permission checks)
    permissions,      \* what has_*_permission() returned for `page`
    entity_class,     \* an entity class under reflection
    attributes,       \* the attribute categories computed for `entity_class`
    graph,            \* the entity classes and the entity objects of a conversion
    conv,             \* the last conversion call: its arguments and its result
    target,           \* the attribute values of the entity from_dict populates
    list_page,        \* an AdminPage subclass with its list fields, and how __init__ ended
    find_run,         \* a call of AdminPage.find: its position, the steps taken, its end
    components,       \* the application's components: component id -> instance
    component_call,   \* the last use of the component decorator and how it ended
    transaction,      \* the last call of DatabaseManager.finalize_transaction
    unknown_error,    \* the last call of APIManager.handle_server_unknown_error
    packages,         \* the packages found under the application root and their DEPENDS
    loader,           \* PackagingManager.load_components: its position and the loaded packages
    authentication,   \* the last call of TokenAuthenticatorBase.authenticate
    inspection,       \* the last call of AuditManager.inspect
    hashed            \* the last PBKDF2 hash made and what was read back from it

adminVars == <<admin_pages, admin_entities, last, invoked>>
pageVars == <<page, permissions>>
reflectVars == <<entity_class, attributes>>
convertVars == <<graph, conv, target>>
findVars == <<list_page, find_run>>
\* the variables of the parts that the admin manager, the permission checks, the
\* reflection and the conversion leave alone.
componentVars == <<components, component_call>>
requestVars == <<transaction, unknown_error>>
packagingVars == <<packages, loader>>
systemVars == <<packagingVars, authentication, inspection, hashed>>
serviceVars == <<findVars, componentVars, requestVars, systemVars>>
vars == <<admin_pages, admin_entities, last, invoked, page, permissions,
          entity_class, attributes, graph, conv, target, list_page, find_run,
          components, component_call, transaction, unknown_error,
          packages, loader, authentication, inspection, hashed>>

(***************************************************************************)
(* Bounds.                                                                 *)
(***************************************************************************)
\* the largest number of primary key columns of an entity bound to an admin page.
MaxPk == 2
\* the largest number of attributes of an entity class under reflection.
MaxAttrs == 3
\* the largest number of attributes of the entity class under conversion.
MaxConvertAttrs == 2
\* the largest number of items of list_fields and of list_temp_fields.
MaxFields == 2

\* the most changes a session holds when its request ends.
MaxPending == 2

\* the most audit hooks registered.
MaxHooks == 2

\* the most rounds of hashing, of two digits.
MaxRounds == 12
\* the most bytes of a salt and of a digest put into a final hash.
MaxSaltLength == 2

\* the most packages that declare a dependency.
MaxDependents == 2

\* the depth of recursion the interpreter allows _load_components.
MaxRecursion == 3

\* the python None; every value of the model is a record tagged by its type.
None == [t |-> "None"]

(***************************************************************************)
(* Strings.                                                                *)
(***************************************************************************)
\* str.lower() on one character of the alphabet used for register names.
LowerChar(c) ==
    IF c = "A" THEN "a" ELSE IF c = "B" THEN "b" ELSE c

\* str.lower()
lower(s) == [i \in DOMAIN s |-> LowerChar(s[i])]

\* str.startswith('_')
startswith_underscore(s) == Len(s) > 0 /\ s[1] = "_"

\* the keys of a sequence of attribute descriptors, in order (a tuple of names).
Keys(descriptors) == [i \in DOMAIN descriptors |-> descriptors[i].key]

\* the set of the elements of a tuple.
Range(s) == {s[i] : i \in DOMAIN s}

\* f without the key k (dict.pop).
Without(f, k) == [x \in DOMAIN f \ {k} |-> f[x]]

\* f with f[k] = v (dict.__setitem__).
With(f, k, v) == [x \in DOMAIN f \cup {k} |-> IF x = k THEN v ELSE f[x]]

EmptyDict == <<>>

(***************************************************************************)
(* Entity classes as the ORM's mapper describes them: a class name and the *)
(* mapped attributes in declaration order.  A descriptor is                *)
(*   [key, kind, primary_key, is_foreign_key, exposed]                     *)
(* with kind "column" (info.column_attrs), "relationship"                  *)
(* (info.relationships) or "hybrid" (hybrid_property descriptors).         *)
(***************************************************************************)
Column(key, pk, fk, exposed) ==
    [key |-> key, kind |-> "column", primary_key |-> pk,
     is_foreign_key |-> fk, exposed |-> exposed]

Relationship(key) ==
    [key |-> key, kind |-> "relationship", primary_key |-> FALSE,
     is_foreign_key |-> FALSE, exposed |-> TRUE]

HybridProperty(key) ==
    [key |-> key, kind |-> "hybrid", primary_key |-> FALSE,
     is_foreign_key |-> FALSE, exposed |-> TRUE]

\* every descriptor an attribute named `key` can have.
Descriptors(key) ==
    {Column(key, pk, fk, ex) : pk \in BOOLEAN, fk \in BOOLEAN, ex \in BOOLEAN}
        \cup {Relationship(key), HybridProperty(key)}

\* attribute names, in declaration order; every second one starts with '_'.
KeyPool == << <<"a">>, <<"_", "b">>, <<"c">>, <<"_", "d">>, <<"e">> >>

\* sqla_inspect(type(self)).column_attrs
column_attrs(cls) == SelectSeq(cls.attrs, LAMBDA d : d.kind = "column")

\* sqla_inspect(type(self)).relationships
relationship_attrs(cls) == SelectSeq(cls.attrs, LAMBDA d : d.kind = "relationship")

\* the hybrid_property items of sqla_inspect(type(self)).all_orm_descriptors
hybrid_descriptors(cls) == SelectSeq(cls.attrs, LAMBDA d : d.kind = "hybrid")

\* sqla_inspect(type(self)).primary_key: the primary key columns of the table.
primary_key(cls) == SelectSeq(column_attrs(cls), LAMBDA d : d.primary_key)

\* AttributeMixin.is_exposed
is_exposed(name) == ~startswith_underscore(name)

\* ColumnMixin.exposed_columns
exposed_columns(cls) ==
    Keys(SelectSeq(column_attrs(cls),
                   LAMBDA d : is_exposed(d.key) /\ ~d.is_foreign_key
                              /\ ~d.primary_key /\ d.exposed))

\* not_exposed_columns that wants both the underscore and exposed=False.
not_exposed_columns_both(cls) ==
    Keys(SelectSeq(column_attrs(cls),
                   LAMBDA d : (~is_exposed(d.key) /\ ~d.exposed)
                              /\ ~d.is_foreign_key /\ ~d.primary_key))

\* ColumnMixin.not_exposed_columns
not_exposed_columns(cls) ==
    Keys(SelectSeq(column_attrs(cls),
                   LAMBDA d : (~is_exposed(d.key) \/ ~d.exposed)
                              /\ ~d.is_foreign_key /\ ~d.primary_key))

\* ColumnMixin.all_columns
all_columns(cls) == exposed_columns(cls) \o not_exposed_columns(cls)

\* RelationshipMixin.exposed_relationships
exposed_relationships(cls) ==
    Keys(SelectSeq(relationship_attrs(cls), LAMBDA d : is_exposed(d.key)))

\* RelationshipMixin.not_exposed_relationships
not_exposed_relationships(cls) ==
    Keys(SelectSeq(relationship_attrs(cls), LAMBDA d : ~is_exposed(d.key)))

\* RelationshipMixin.relationships
relationships(cls) == exposed_relationships(cls) \o not_exposed_relationships(cls)

\* HybridPropertyMixin.exposed_hybrid_properties
exposed_hybrid_properties(cls) ==
    Keys(SelectSeq(hybrid_descriptors(cls), LAMBDA d : is_exposed(d.key)))

\* HybridPropertyMixin.not_exposed_hybrid_properties
not_exposed_hybrid_properties(cls) ==
    Keys(SelectSeq(hybrid_descriptors(cls), LAMBDA d : ~is_exposed(d.key)))

\* HybridPropertyMixin.all_hybrid_properties
all_hybrid_properties(cls) ==
    exposed_hybrid_properties(cls) \o not_exposed_hybrid_properties(cls)

\* PrimaryKeyMixin.exposed_primary_key_columns
exposed_primary_key_columns(cls) ==
    Keys(SelectSeq(primary_key(cls), LAMBDA d : is_exposed(d.key) /\ d.exposed))

\* PrimaryKeyMixin.not_exposed_primary_key_columns
not_exposed_primary_key_columns(cls) ==
    Keys(SelectSeq(primary_key(cls), LAMBDA d : ~is_exposed(d.key) \/ ~d.exposed))

\* primary_key_columns that forgets the not exposed primary key columns.
primary_key_columns_exposed_only(cls) == exposed_primary_key_columns(cls)

\* PrimaryKeyMixin.primary_key_columns
primary_key_columns(cls) ==
    exposed_primary_key_columns(cls) \o not_exposed_primary_key_columns(cls)

\* ForeignKeyMixin.exposed_foreign_key_columns
exposed_foreign_key_columns(cls) ==
    Keys(SelectSeq(column_attrs(cls),
                   LAMBDA d : d.is_foreign_key /\ is_exposed(d.key) /\ d.exposed))

\* ForeignKeyMixin.not_exposed_foreign_key_columns
not_exposed_foreign_key_columns(cls) ==
    Keys(SelectSeq(column_attrs(cls),
                   LAMBDA d : d.is_foreign_key /\ (~is_exposed(d.key) \/ ~d.exposed)))

\* ForeignKeyMixin.foreign_key_columns
foreign_key_columns(cls) ==
    exposed_foreign_key_columns(cls) \o not_exposed_foreign_key_columns(cls)

\* all_exposed_attributes that also lists the not exposed plain columns.
all_exposed_attributes_and_hidden_columns(cls) ==
    exposed_primary_key_columns(cls) \o exposed_foreign_key_columns(cls)
        \o exposed_columns(cls) \o not_exposed_columns(cls)
        \o exposed_relationships(cls) \o exposed_hybrid_properties(cls)

\* AttributeMixin.all_exposed_attributes
all_exposed_attributes(cls) ==
    exposed_primary_key_columns(cls) \o exposed_foreign_key_columns(cls)
        \o exposed_columns(cls) \o exposed_relationships(cls)
        \o exposed_hybrid_properties(cls)

\* AttributeMixin.all_not_exposed_attributes
all_not_exposed_attributes(cls) ==
    not_exposed_primary_key_columns(cls) \o not_exposed_foreign_key_columns(cls)
        \o not_exposed_columns(cls) \o not_exposed_relationships(cls)
        \o not_exposed_hybrid_properties(cls)

\* AttributeMixin.all_attributes
all_attributes(cls) == all_exposed_attributes(cls) \o all_not_exposed_attributes(cls)

(***************************************************************************)
(* Values.  Every python value the conversion handles is a tagged record.  *)
(***************************************************************************)
IntValue(v) == [t |-> "int", v |-> v]
\* a related entity, by the identity of the object.
Entity(id) == [t |-> "entity", id |-> id]
\* a list (LIST_TYPES) of values.
List(items) == [t |-> "list", items |-> items]
\* a list, or a one-level dict, of column names (`columns`, `exclude`).
Names(names) == [t |-> "names", names |-> names]
\* a dict; `nested` says that its first value is itself a dict.
Dict(d, nested) == [t |-> "dict", d |-> d, nested |-> nested]
SECURE_TRUE == [t |-> "SECURE_TRUE"]
SECURE_FALSE == [t |-> "SECURE_FALSE"]
\* the plain boolean False, which is not the SECURE_FALSE object.
PlainFalse == [t |-> "bool", v |-> FALSE]
\* a raised exception.
Raised(error) == [t |-> "error", error |-> error]

\* ConverterMixin.MAX_DEPTH
MAX_DEPTH == 5

\* dict.get(key, default)
DictGet(d, key, default) == IF key \in DOMAIN d THEN d[key] ELSE default

\* to_dict's options, as the keyword arguments it reads.
Options(exposed_only, columns, rename, exclude, depth) ==
    [exposed_only |-> exposed_only, columns |-> columns, rename |-> rename,
     exclude |-> exclude, depth |-> depth]

\* isinstance(value, dict), then value.get(self.get_class_name(), None).
OfClass(value, cls) ==
    IF value.t = "dict" THEN DictGet(value.d, cls.class_name, None) ELSE value

\* ConverterMixin._extract_conditions
_extract_conditions(cls, options) ==
    LET columns == OfClass(options.columns, cls)
        rename == IF options.rename.t = "dict" /\ options.rename.nested
                  THEN DictGet(options.rename.d, cls.class_name, None)
                  ELSE options.rename
        exclude == OfClass(options.exclude, cls)
        column_set == IF columns = None THEN {} ELSE columns.names
        exclude_set == IF exclude = None THEN {} ELSE exclude.names
    IN [columns |-> column_set \ exclude_set,
        rename |-> IF rename = None THEN EmptyDict ELSE rename.d,
        exclude |-> exclude_set]

\* the first exception among the results of nested calls, if any.
FirstRaised(results) ==
    IF \E i \in DOMAIN results : results[i].t = "error"
    THEN results[CHOOSE i \in DOMAIN results :
                    /\ results[i].t = "error"
                    /\ \A j \in DOMAIN results : results[j].t = "error" => i <= j]
    ELSE None

\* the attribute names to_dict resolves by exposed_only, in their order.
attribute_names(cls, options) ==
    IF options.exposed_only = SECURE_FALSE
    THEN all_attributes(cls) ELSE all_exposed_attributes(cls)

\* the first part of to_dict: the columns and the relationships to convert, or
\* Raised when a requested column is not an attribute.
requested(cls, options) ==
    LET conditions == _extract_conditions(cls, options)
        relations == IF options.exposed_only = SECURE_FALSE
                     THEN Range(relationships(cls))
                     ELSE Range(exposed_relationships(cls))
        all == Range(attribute_names(cls, options))
        not_existed == conditions.columns \ all
        requested_columns == IF conditions.columns # {}
                             THEN conditions.columns ELSE all \ conditions.exclude
    IN IF conditions.columns # {} /\ not_existed # {}
       THEN Raised("ColumnNotExistedError")
       ELSE [t |-> "requested", rename |-> conditions.rename,
             columns |-> requested_columns \ relations,
             relationships |-> requested_columns \cap relations]

\* the test of line 641 that lets depth 0 through.
follows_from_zero(depth, requested_relationships) ==
    depth >= 0 /\ requested_relationships # {}

\* depth > 0 and len(requested_relationships) > 0
follows(depth, requested_relationships) ==
    depth > 0 /\ requested_relationships # {}

\* options handed on with no depth left.
nested_options_without_depth(options, depth) == [options EXCEPT !.depth = IntValue(0)]

\* options.update(depth=depth - 1)
nested_options(options, depth) == [options EXCEPT !.depth = IntValue(depth - 1)]

\* the value of a relationship with an empty list taken for None.
related_value_none_if_empty(value, converted) ==
    IF value = None \/ converted = <<>> THEN None
    ELSE IF value.t = "list"
    THEN IF FirstRaised(converted) # None THEN FirstRaised(converted) ELSE List(converted)
    ELSE converted[1]

\* what to_dict stores for a relationship holding `value`, `converted` being
\* the results of to_dict on the related entities: None, a list, or one
\* mapping; the first exception of the nested calls if any.
related_value(value, converted) ==
    IF value = None THEN None
    ELSE IF value.t = "list"
    THEN IF FirstRaised(converted) # None THEN FirstRaised(converted) ELSE List(converted)
    ELSE converted[1]

\* the entities a relationship value holds, in order.
related_entities(value) ==
    IF value = None THEN <<>>
    ELSE IF value.t = "list" THEN value.items ELSE <<value>>

RECURSIVE to_dict(_, _, _, _)
\* ConverterMixin.to_dict of the object `id` of `world`: a Dict, or Raised.
\* Two columns renamed to one key are written in the order of all_attributes.
to_dict(world, id, options, default_depth) ==
    LET self == world.objects[id]
        cls == world.classes[self.cls]
        asked == requested(cls, options)
        depth == IF options.depth = None THEN default_depth ELSE options.depth.v
        names == attribute_names(cls, options)
    IN IF asked.t = "error"
       THEN asked
       ELSE
       LET requested_relationships == asked.relationships
           plain == asked.columns
           new_name(col) == DictGet(asked.rename, col, col)
           \* the column whose value ends under `key`: the last one written.
           writer(key, cols) ==
               LET at(col) == CHOOSE i \in DOMAIN names : names[i] = col
               IN CHOOSE col \in cols :
                     /\ new_name(col) = key
                     /\ \A other \in cols : new_name(other) = key => at(other) <= at(col)
           result == [key \in {new_name(col) : col \in plain} |->
                         self.values[writer(key, plain)]]
       IN IF follows(depth, requested_relationships)
          THEN IF depth > MAX_DEPTH
               THEN Raised("InvalidDepthProvidedError")
               ELSE
               LET convert(relation) ==
                       LET value == self.values[relation]
                           entities == related_entities(value)
                       IN related_value(value,
                              [i \in DOMAIN entities |->
                                  to_dict(world, entities[i].id,
                                          nested_options(options, depth), default_depth)])
                   related_keys == {new_name(rel) : rel \in requested_relationships}
                   related == [key \in related_keys |->
                                  convert(writer(key, requested_relationships))]
               IN IF \E key \in related_keys : related[key].t = "error"
                  THEN related[CHOOSE key \in related_keys : related[key].t = "error"]
                  ELSE Dict([key \in DOMAIN result \cup related_keys |->
                                IF key \in related_keys THEN related[key] ELSE result[key]],
                            FALSE)
          ELSE Dict(result, FALSE)

RECURSIVE to_dict_calls(_, _, _, _)
\* the nested calls entity.to_dict(**options) that to_dict of the object `id`
\* may make, each with the depth of its caller and the depth it is given.
to_dict_calls(world, id, options, default_depth) ==
    LET self == world.objects[id]
        cls == world.classes[self.cls]
        asked == requested(cls, options)
        depth == IF options.depth = None THEN default_depth ELSE options.depth.v
    IN IF asked.t = "error" THEN {}
       ELSE IF ~follows(depth, asked.relationships) \/ depth > MAX_DEPTH THEN {}
       ELSE UNION {
              UNION {{[caller |-> id, caller_depth |-> depth, callee |-> entity.id,
                       depth |-> nested_options(options, depth).depth.v]}
                        \cup to_dict_calls(world, entity.id,
                                           nested_options(options, depth), default_depth) :
                     entity \in Range(related_entities(self.values[relation]))} :
              relation \in asked.relationships}

\* the names of from_dict's switches.
FromDictSwitches ==
    { <<"exposed_only">>, <<"ignore_pk">>, <<"ignore_fk">>, <<"ignore_relationships">> }

\* every keyword from_dict reads for itself.
FromDictKeywords ==
    FromDictSwitches \cup { <<"ignore_invalid_column">>, <<"populate_all">> }

\* the defaults of from_dict's keywords with ignore_fk defaulting to SECURE_TRUE.
keyword_default_ignoring_fk(name) ==
    IF name = <<"populate_all">> THEN SECURE_FALSE ELSE SECURE_TRUE

\* the default of each keyword of from_dict (the kwargs.pop defaults).
keyword_default(name) ==
    IF name \in { <<"populate_all">>, <<"ignore_fk">> } THEN SECURE_FALSE ELSE SECURE_TRUE

\* kwargs.pop(name, default), the value.
Pop(kwargs, name) == DictGet(kwargs, name, keyword_default(name))

\* from_dict's switches as it resolves them: populate_all overrides the others.
resolve_switches(kwargs) ==
    IF Pop(kwargs, <<"populate_all">>) = SECURE_TRUE
    THEN [exposed_only |-> SECURE_FALSE, ignore_pk |-> SECURE_FALSE,
          ignore_fk |-> SECURE_FALSE, ignore_relationships |-> SECURE_FALSE,
          popped |-> { <<"ignore_invalid_column">>, <<"populate_all">> }]
    ELSE [exposed_only |-> Pop(kwargs, <<"exposed_only">>),
          ignore_pk |-> Pop(kwargs, <<"ignore_pk">>),
          ignore_fk |-> Pop(kwargs, <<"ignore_fk">>),
          ignore_relationships |-> Pop(kwargs, <<"ignore_relationships">>),
          popped |-> FromDictKeywords]

\* from_dict's all_accessible_columns for the resolved switches.
all_accessible_columns(cls, switches) ==
    LET exposed_only == switches.exposed_only
        accessible_columns ==
            IF exposed_only = SECURE_FALSE
            THEN exposed_columns(cls) \o not_exposed_columns(cls)
            ELSE exposed_columns(cls)
        accessible_pk ==
            IF switches.ignore_pk = SECURE_FALSE
            THEN IF exposed_only = SECURE_FALSE
                 THEN primary_key_columns(cls) ELSE exposed_primary_key_columns(cls)
            ELSE <<>>
        accessible_fk ==
            IF switches.ignore_fk # SECURE_TRUE
            THEN IF exposed_only = SECURE_FALSE
                 THEN foreign_key_columns(cls) ELSE exposed_foreign_key_columns(cls)
            ELSE <<>>
        accessible_relationships ==
            IF switches.ignore_relationships = SECURE_FALSE
            THEN IF exposed_only = SECURE_FALSE
                 THEN relationships(cls) ELSE exposed_relationships(cls)
            ELSE <<>>
    IN accessible_pk \o accessible_fk \o accessible_columns \o accessible_relationships

\* populate that assigns the accessible columns before it looks for invalid ones.
populate_then_check(values, rest, accessible, ignore_invalid) ==
    LET provided_columns == DOMAIN rest
        result_columns == accessible \cap provided_columns
        not_existed == provided_columns \ result_columns
    IN [values |-> [k \in DOMAIN values |->
                       IF k \in result_columns THEN rest[k] ELSE values[k]],
        outcome |-> IF ignore_invalid = SECURE_FALSE /\ not_existed # {}
                    THEN "ColumnNotExistedError" ELSE "ok"]

\* the end of from_dict: the check of the provided columns, then the setattr loop.
populate(values, rest, accessible, ignore_invalid) ==
    LET provided_columns == DOMAIN rest
        result_columns == accessible \cap provided_columns
        not_existed == provided_columns \ result_columns
    IN IF ignore_invalid = SECURE_FALSE /\ not_existed # {}
       THEN [values |-> values, outcome |-> "ColumnNotExistedError"]
       ELSE [values |-> [k \in DOMAIN values |->
                            IF k \in result_columns THEN rest[k] ELSE values[k]],
             outcome |-> "ok"]

\* ConverterMixin.from_dict on an entity of class cls with the attribute values
\* `values`: the values it leaves and how it ends.
from_dict(cls, values, kwargs) ==
    LET ignore_invalid == Pop(kwargs, <<"ignore_invalid_column">>)
        switches == resolve_switches(kwargs)
        \* kwargs after the pops: the switches stay in it when populate_all is set.
        rest == [k \in DOMAIN kwargs \ switches.popped |-> kwargs[k]]
    IN populate(values, rest, Range(all_accessible_columns(cls, switches)), ignore_invalid)

(***************************************************************************)
(* Admin pages.  A page is the single instance of its AdminPage subclass:  *)
(* [type, register_name, entity, get_permission, create_permission,        *)
(*  update_permission, remove_permission].                                 *)
(***************************************************************************)
ClassNames == << <<"E0">>, <<"E1">>, <<"E2">>, <<"E3">>, <<"E4">> >>

\* an entity class with n primary key columns and one plain column; the names of
\* the primary key columns come from KeyPool, so every second one is not exposed.
AdminEntity(n) ==
    [class_name |-> ClassNames[n + 1],
     attrs |-> [i \in 1..(n + 1) |->
                  IF i <= n THEN Column(KeyPool[i], TRUE, FALSE, TRUE)
                  ELSE Column(<<"v">>, FALSE, FALSE, TRUE)]]

AdminEntities == {AdminEntity(n) : n \in 0..MaxPk}

AdminPage(register_name, entity, get_p, create_p, update_p, remove_p) ==
    [type |-> "AdminPage", register_name |-> register_name, entity |-> entity,
     get_permission |-> get_p, create_permission |-> create_p,
     update_permission |-> update_p, remove_permission |-> remove_p]

\* an object that is no AbstractAdminPage.
NotAPage == [type |-> "object"]

RegisterNames == { <<"A">>, <<"a">>, <<"B">>, <<"b">> }

\* pages with the permission flags of the AdminPage class (all True).
DefaultPages ==
    {AdminPage(n, e, TRUE, TRUE, TRUE, TRUE) : n \in RegisterNames, e \in AdminEntities}

\* pages over a single and a composite primary key, with every combination of
\* the permission flags.
FlaggedPages ==
    {AdminPage(n, e, g, c, u, r) :
        n \in { <<"A">> }, e \in {AdminEntity(1), AdminEntity(MaxPk)},
        g \in BOOLEAN, c \in BOOLEAN, u \in BOOLEAN, r \in BOOLEAN}

\* the `replace` option: True, False, or a truthy value that is not True.
ReplaceValues == {"True", "False", "1"}

\* the second argument of an operation (a primary key, or the data).
ArgValues == {1, 2}

\* get_register_name that returns the register name as it was declared.
get_register_name_as_declared(instance) == instance.register_name

\* AdminPage.get_register_name
get_register_name(instance) == lower(instance.register_name)

\* AdminPage.get_entity
get_entity(instance) == instance.entity

\* AdminPage._has_single_primary_key
_has_single_primary_key(self) == Len(primary_key_columns(self.entity)) = 1

\* AdminPage.has_get_permission
has_get_permission(self) == _has_single_primary_key(self) /\ self.get_permission

\* AdminPage.has_create_permission
has_create_permission(self) == self.create_permission

\* AdminPage.has_update_permission
has_update_permission(self) == _has_single_primary_key(self) /\ self.update_permission

\* AdminPage.has_remove_permission
has_remove_permission(self) == _has_single_primary_key(self) /\ self.remove_permission

(***************************************************************************)
(* AdminManager.  A registry is [pages, entities], the two dicts.          *)
(***************************************************************************)
RECURSIVE _remove_from_pages(_, _)
RECURSIVE _remove_from_entities(_, _)

\* _remove_from_pages that leaves the entity index alone.
_remove_from_pages_only(reg, register_name) ==
    IF register_name \in DOMAIN reg.pages
    THEN [reg EXCEPT !.pages = Without(reg.pages, register_name)]
    ELSE reg

\* AdminManager._remove_from_pages
_remove_from_pages(reg, register_name) ==
    IF register_name \in DOMAIN reg.pages
    THEN LET instance == reg.pages[register_name]
         IN _remove_from_entities([reg EXCEPT !.pages = Without(reg.pages, register_name)],
                                  get_entity(instance))
    ELSE reg

\* _remove_from_entities that leaves the name index alone.
_remove_from_entities_only(reg, entity) ==
    IF entity \in DOMAIN reg.entities
    THEN [reg EXCEPT !.entities = Without(reg.entities, entity)]
    ELSE reg

\* AdminManager._remove_from_entities
_remove_from_entities(reg, entity) ==
    IF entity \in DOMAIN reg.entities
    THEN LET instance == reg.entities[entity]
         IN _remove_from_pages([reg EXCEPT !.entities = Without(reg.entities, entity)],
                               get_register_name(instance))
    ELSE reg

\* register with the removals made before the replace option is looked at.
register_result_eager(reg, instance, replace) ==
    IF instance.type # "AdminPage"
    THEN [reg |-> reg, outcome |-> "InvalidAdminPageTypeError"]
    ELSE
    LET name == get_register_name(instance)
        entity == get_entity(instance)
        reg1 == _remove_from_pages(reg, name)
        reg2 == _remove_from_entities(reg1, entity)
    IN IF (name \in DOMAIN reg.pages \/ entity \in DOMAIN reg.entities)
          /\ replace # "True"
       THEN [reg |-> reg2, outcome |-> "DuplicatedAdminPageError"]
       ELSE [reg |-> [pages |-> With(reg2.pages, name, instance),
                      entities |-> With(reg2.entities, entity, instance)],
             outcome |-> "ok"]

\* AdminManager.register: the registry it leaves and how it ends.
register_result(reg, instance, replace) ==
    IF instance.type # "AdminPage"
    THEN [reg |-> reg, outcome |-> "InvalidAdminPageTypeError"]
    ELSE
    LET name == get_register_name(instance)
        entity == get_entity(instance)
    IN IF name \in DOMAIN reg.pages /\ replace # "True"
       THEN [reg |-> reg, outcome |-> "DuplicatedAdminPageError"]
       ELSE
       LET reg1 == IF name \in DOMAIN reg.pages
                   THEN _remove_from_pages(reg, name) ELSE reg
       IN IF entity \in DOMAIN reg1.entities /\ replace # "True"
          THEN [reg |-> reg1, outcome |-> "DuplicatedAdminPageError"]
          ELSE
          LET reg2 == IF entity \in DOMAIN reg1.entities
                      THEN _remove_from_entities(reg1, entity) ELSE reg1
          IN [reg |-> [pages |-> With(reg2.pages, name, instance),
                       entities |-> With(reg2.entities, entity, instance)],
              outcome |-> "ok"]

NoCall == [op |-> "none"]

Registry == [pages |-> admin_pages, entities |-> admin_entities]

\* the call a `last` record describes: for register the instance, the replace
\* option and the pages the call dropped from an index; else the register name.
Call(op, register_name, instance, replace, removed, outcome) ==
    [op |-> op, register_name |-> register_name, instance |-> instance,
     replace |-> replace, removed |-> removed, outcome |-> outcome]

\* the page instances a registry holds, in either index.
Instances(reg) == Range(reg.pages) \cup Range(reg.entities)

\* AdminManager.register
register(instance, replace) ==
    LET r == register_result(Registry, instance, replace)
    IN /\ admin_pages' = r.reg.pages
       /\ admin_entities' = r.reg.entities
       /\ last' = Call("register", <<>>, instance, replace,
                       {p \in Instances(Registry) :
                           p \notin Instances(r.reg) \/ (r.outcome = "ok" /\ p = instance)},
                       r.outcome)
       /\ invoked' = NoCall

\* AdminManager._get_admin_page: the page, or NotAPage for AdminPageNotFoundError.
_get_admin_page(register_name) ==
    LET name == lower(register_name)
    IN IF name \notin DOMAIN admin_pages THEN NotAPage ELSE admin_pages[name]

\* the shape of get, create, update, remove and remove_bulk: resolve the page,
\* check the permission, then call the page's operation.
guarded(op, page_op, register_name, arg, permitted) ==
    LET admin == _get_admin_page(register_name)
    IN /\ UNCHANGED <<admin_pages, admin_entities>>
       /\ IF admin = NotAPage
          THEN /\ last' = Call(op, register_name, NotAPage, "False", {},
                               "AdminPageNotFoundError")
               /\ invoked' = NoCall
          ELSE IF ~permitted
          THEN /\ last' = Call(op, register_name, NotAPage, "False", {},
                               "AdminOperationNotAllowedError")
               /\ invoked' = NoCall
          ELSE /\ last' = Call(op, register_name, NotAPage, "False", {}, "ok")
               /\ invoked' = [op |-> page_op, page |-> admin, arg |-> arg]

\* AdminManager.get
get(register_name, pk) ==
    guarded("get", "get", register_name, pk,
            has_get_permission(_get_admin_page(register_name)))

\* AdminManager.create
create(register_name, data) ==
    guarded("create", "create", register_name, data,
            has_create_permission(_get_admin_page(register_name)))

\* AdminManager.update
update(register_name, pk) ==
    guarded("update", "update", register_name, pk,
            has_update_permission(_get_admin_page(register_name)))

\* AdminManager.remove
remove(register_name, pk) ==
    guarded("remove", "remove", register_name, pk,
            has_remove_permission(_get_admin_page(register_name)))

\* remove_bulk guarded by the create permission.
remove_bulk_wrong_permission(register_name, pk) ==
    guarded("remove_bulk", "remove_bulk", register_name, pk,
            has_create_permission(_get_admin_page(register_name)))

\* AdminManager.remove_bulk
remove_bulk(register_name, pk) ==
    guarded("remove_bulk", "remove_bulk", register_name, pk,
            has_remove_permission(_get_admin_page(register_name)))

(***************************************************************************)
(* The permission checks of one admin page.                                *)
(***************************************************************************)
\* pages over every entity, with every combination of the permission flags.
InspectedPages ==
    {AdminPage(<<"A">>, e, g, c, u, r) :
        e \in AdminEntities,
        g \in BOOLEAN, c \in BOOLEAN, u \in BOOLEAN, r \in BOOLEAN}

NotAsked == [of |-> "none", value |-> FALSE]

AskGet == permissions' = [of |-> "get", value |-> has_get_permission(page)]
AskCreate == permissions' = [of |-> "create", value |-> has_create_permission(page)]
AskUpdate == permissions' = [of |-> "update", value |-> has_update_permission(page)]
AskRemove == permissions' = [of |-> "remove", value |-> has_remove_permission(page)]

(***************************************************************************)
(* Specifications.  Each one runs one part of the program and leaves the   *)
(* variables of the other parts at their idle values.                      *)
(***************************************************************************)
AdminIdle ==
    /\ admin_pages = EmptyDict
    /\ admin_entities = EmptyDict
    /\ last = Call("none", <<>>, NotAPage, "False", {}, "ok")
    /\ invoked = NoCall

PageIdle == page = NotAPage /\ permissions = NotAsked

ReflectIdle == entity_class = None /\ attributes = None

ConvertIdle == graph = None /\ conv = None /\ target = None

NoFind == [pc |-> 0, trace |-> <<>>, outcome |-> "none"]

FindIdle == list_page = None /\ find_run = NoFind

ComponentsIdle == components = EmptyDict /\ component_call = None

RequestsIdle == transaction = None /\ unknown_error = None

PackagingIdle == packages = None /\ loader = None

SystemIdle ==
    PackagingIdle /\ authentication = None /\ inspection = None /\ hashed = None

ServicesIdle == FindIdle /\ ComponentsIdle /\ RequestsIdle /\ SystemIdle

\* the admin manager, registering pages with the default permission flags.
InitAdmin == AdminIdle /\ PageIdle /\ ReflectIdle /\ ConvertIdle /\ ServicesIdle

Register(pages) ==
    /\ \E instance \in pages \cup {NotAPage}, replace \in ReplaceValues :
          register(instance, replace)
    /\ UNCHANGED <<pageVars, reflectVars, convertVars, serviceVars>>

Get ==
    /\ \E register_name \in RegisterNames, pk \in ArgValues : get(register_name, pk)
    /\ UNCHANGED <<pageVars, reflectVars, convertVars, serviceVars>>

Create ==
    /\ \E register_name \in RegisterNames, data \in ArgValues : create(register_name, data)
    /\ UNCHANGED <<pageVars, reflectVars, convertVars, serviceVars>>

Update ==
    /\ \E register_name \in RegisterNames, pk \in ArgValues : update(register_name, pk)
    /\ UNCHANGED <<pageVars, reflectVars, convertVars, serviceVars>>

Remove ==
    /\ \E register_name \in RegisterNames, pk \in ArgValues : remove(register_name, pk)
    /\ UNCHANGED <<pageVars, reflectVars, convertVars, serviceVars>>

RemoveBulk ==
    /\ \E register_name \in RegisterNames, pk \in ArgValues : remove_bulk(register_name, pk)
    /\ UNCHANGED <<pageVars, reflectVars, convertVars, serviceVars>>

RegisterDefault == Register(DefaultPages)

RegisterFlagged == Register(FlaggedPages)

NextAdmin == RegisterDefault \/ Get \/ Create \/ Update \/ Remove \/ RemoveBulk

SpecAdmin == InitAdmin /\ [][NextAdmin]_vars

\* the admin manager over pages with every combination of the permission flags.
NextAdminOps == RegisterFlagged \/ Get \/ Create \/ Update \/ Remove \/ RemoveBulk

SpecAdminOps == InitAdmin /\ [][NextAdminOps]_vars

\* the permission checks of one page.
InitPermissions ==
    /\ AdminIdle /\ ReflectIdle /\ ConvertIdle /\ ServicesIdle
    /\ page \in InspectedPages
    /\ permissions = NotAsked

HasGetPermission == AskGet /\ UNCHANGED <<page, adminVars, reflectVars, convertVars, serviceVars>>

HasCreatePermission == AskCreate /\ UNCHANGED <<page, adminVars, reflectVars, convertVars, serviceVars>>

HasUpdatePermission == AskUpdate /\ UNCHANGED <<page, adminVars, reflectVars, convertVars, serviceVars>>

HasRemovePermission == AskRemove /\ UNCHANGED <<page, adminVars, reflectVars, convertVars, serviceVars>>

NextPermissions ==
    HasGetPermission \/ HasCreatePermission \/ HasUpdatePermission \/ HasRemovePermission

SpecPermissions == InitPermissions /\ [][NextPermissions]_vars

(***************************************************************************)
(* Reflection: the attribute categories of one entity class.               *)
(***************************************************************************)
\* the ways to pick n of the first m names, in declaration order.
Picks(n, m) == {s \in [1..n -> 1..m] : \A i \in 1..n : \A j \in 1..n : i < j => s[i] < s[j]}

\* the classes of at most max attributes with names from keys, declared in the
\* order of keys.
ClassesOf(class_name, keys, max) ==
    UNION {{[class_name |-> class_name,
             attrs |-> [i \in 1..n |-> [shape[i] EXCEPT !.key = keys[pick[i]]]]] :
               shape \in [1..n -> Descriptors(keys[1])], pick \in Picks(n, Len(keys))} :
           n \in 0..max}

\* every cached property of the mixins, as its name and its value.
Reflection(cls) ==
    [exposed_columns |-> exposed_columns(cls),
     not_exposed_columns |-> not_exposed_columns(cls),
     all_columns |-> all_columns(cls),
     exposed_relationships |-> exposed_relationships(cls),
     not_exposed_relationships |-> not_exposed_relationships(cls),
     relationships |-> relationships(cls),
     exposed_hybrid_properties |-> exposed_hybrid_properties(cls),
     not_exposed_hybrid_properties |-> not_exposed_hybrid_properties(cls),
     all_hybrid_properties |-> all_hybrid_properties(cls),
     exposed_primary_key_columns |-> exposed_primary_key_columns(cls),
     not_exposed_primary_key_columns |-> not_exposed_primary_key_columns(cls),
     primary_key_columns |-> primary_key_columns(cls),
     exposed_foreign_key_columns |-> exposed_foreign_key_columns(cls),
     not_exposed_foreign_key_columns |-> not_exposed_foreign_key_columns(cls),
     foreign_key_columns |-> foreign_key_columns(cls),
     all_exposed_attributes |-> all_exposed_attributes(cls),
     all_not_exposed_attributes |-> all_not_exposed_attributes(cls),
     all_attributes |-> all_attributes(cls)]

InitReflect ==
    /\ AdminIdle /\ PageIdle /\ ConvertIdle /\ ServicesIdle
    /\ entity_class \in ClassesOf(<<"CarEntity">>, KeyPool, MaxAttrs)
    /\ attributes = None

\* the first access to the properties of the class, which computes them.
Reflect ==
    /\ attributes = None
    /\ attributes' = [t |-> "cache"] @@ Reflection(entity_class)
    /\ UNCHANGED <<entity_class, adminVars, pageVars, convertVars, serviceVars>>

NextReflect == Reflect

SpecReflect == InitReflect /\ [][NextReflect]_vars

(***************************************************************************)
(* Conversion: one CarEntity object (1) of a drawn class, related to one   *)
(* PersonEntity object (2) that relates back to it.                        *)
(***************************************************************************)
\* the attribute names of the converted classes.
ConvertKeys == SubSeq(KeyPool, 1, Len(KeyPool) - 2)

PersonEntity ==
    [class_name |-> <<"PersonEntity">>,
     attrs |-> <<Column(KeyPool[1], TRUE, FALSE, TRUE), Relationship(KeyPool[3])>>]

\* what a relationship attribute of object 1 can hold.
RelationValues == {None, List(<<>>), List(<<Entity(2)>>), Entity(2)}

\* the values of an object of class cls: column i holds base + i, a relationship
\* holds any of RelationValues.
ValuesOf(cls, base) ==
    {[i \in DOMAIN cls.attrs |-> v[i]] : v \in
        {f \in [DOMAIN cls.attrs -> RelationValues \cup
                                    {IntValue(base + i) : i \in DOMAIN cls.attrs}] :
            \A i \in DOMAIN cls.attrs :
                IF cls.attrs[i].kind = "relationship"
                THEN f[i] \in RelationValues ELSE f[i] = IntValue(base + i)}}

\* the attribute values of an object, by attribute name.
ByName(cls, v) == [k \in Range(Keys(cls.attrs)) |->
                      v[CHOOSE i \in DOMAIN cls.attrs : cls.attrs[i].key = k]]

Graph(car, v) ==
    [t |-> "graph",
     classes |-> [n \in {<<"CarEntity">>, <<"PersonEntity">>} |->
                     IF n = <<"CarEntity">> THEN car ELSE PersonEntity],
     objects |-> [id \in {1, 2} |->
                     IF id = 1 THEN [cls |-> <<"CarEntity">>, values |-> ByName(car, v)]
                     ELSE [cls |-> <<"PersonEntity">>,
                           values |-> ByName(PersonEntity,
                                             <<IntValue(21), List(<<Entity(1)>>)>>)]]]

ConvertGraphs ==
    UNION {{Graph(car, v) : v \in ValuesOf(car, 10)} :
              car \in ClassesOf(<<"CarEntity">>, ConvertKeys, MaxConvertAttrs)}

\* the names a caller passes: those the class can have, and one it never has.
Unknown == <<"zz">>
CallerNames == Range(ConvertKeys) \cup {Unknown}

\* a dict with one key.
One(k, v) == [x \in {k} |-> v]

DefaultOptions == Options(SECURE_TRUE, None, None, None, None)

DepthChoices == {None} \cup {IntValue(d) : d \in {0, 1, MAX_DEPTH, MAX_DEPTH + 1}}

\* the value of database.conversion.default_depth in the config store.
DefaultDepths == {0, 1}

\* the sets of names a caller asks for in `columns`.
RequestedSets == {S \in SUBSET CallerNames : Cardinality(S) <= MaxConvertAttrs}

\* options with lists of names.
ListOptions ==
    {Options(exposed_only, columns, None, exclude, depth) :
        exposed_only \in {SECURE_TRUE, SECURE_FALSE, PlainFalse},
        columns \in {None} \cup {Names(S) : S \in RequestedSets},
        exclude \in {None} \cup {Names({n}) : n \in CallerNames},
        depth \in DepthChoices}

\* options with dicts keyed by the class name, and renames.
KeyedOptions ==
    {Options(SECURE_TRUE, columns, rename, exclude, depth) :
        columns \in {None,
                     Dict(One(<<"CarEntity">>, Names({KeyPool[1]})), FALSE),
                     Dict(One(<<"CarEntity">>, Names({Unknown})), FALSE),
                     Dict(One(<<"PersonEntity">>, Names({Unknown})), FALSE)},
        rename \in {None,
                    Dict(One(KeyPool[1], <<"x">>), FALSE),
                    Dict(One(KeyPool[2], KeyPool[1]), FALSE),
                    Dict(One(<<"CarEntity">>, Dict(One(KeyPool[1], <<"x">>), FALSE)), TRUE)},
        exclude \in {None, Dict(One(<<"CarEntity">>, Names({KeyPool[1]})), FALSE)},
        depth \in {IntValue(0), IntValue(1)}}

ToDictOptions == ListOptions \cup KeyedOptions

InitConvert ==
    /\ AdminIdle /\ PageIdle /\ ReflectIdle /\ ServicesIdle
    /\ graph \in ConvertGraphs
    /\ conv = None
    /\ target = [k \in DOMAIN graph.objects[1].values |-> None]

\* object 1 is converted: entity.to_dict(**options).
ToDict ==
    /\ conv = None
    /\ \E options \in ToDictOptions, default_depth \in DefaultDepths :
          /\ options.depth # None => default_depth = 0
          /\ conv' = [t |-> "to_dict", options |-> options,
                      default_depth |-> default_depth,
                      result |-> to_dict(graph, 1, options, default_depth)]
    /\ UNCHANGED <<graph, target, adminVars, pageVars, reflectVars, serviceVars>>

NextToDict == ToDict

SpecToDict == InitConvert /\ [][NextToDict]_vars

\* the switches of from_dict, each absent or set against its default.
SwitchChoices ==
    {[k \in chosen |->
         IF k \in { <<"populate_all">>, <<"ignore_fk">> } THEN SECURE_TRUE ELSE SECURE_FALSE] :
        chosen \in SUBSET (FromDictSwitches
                              \cup { <<"ignore_invalid_column">>, <<"populate_all">> })}

\* the values a caller provides, by name.
DataChoices == {[k \in S |-> IntValue(7)] : S \in SUBSET CallerNames}

\* a fresh entity of class CarEntity is populated: entity.from_dict(**kwargs).
FromDict ==
    /\ conv = None
    /\ \E data \in DataChoices, switches \in SwitchChoices :
          LET kwargs == switches @@ data
              r == from_dict(graph.classes[<<"CarEntity">>], target, kwargs)
          IN /\ target' = r.values
             /\ conv' = [t |-> "from_dict", kwargs |-> kwargs, round_trip |-> FALSE,
                         outcome |-> r.outcome]
    /\ UNCHANGED <<graph, adminVars, pageVars, reflectVars, serviceVars>>

\* a fresh entity b is populated from object 1: b.from_dict(**a.to_dict()).
RoundTrip ==
    /\ conv = None
    /\ \E default_depth \in DefaultDepths :
          LET kwargs == to_dict(graph, 1, DefaultOptions, default_depth)
              r == from_dict(graph.classes[<<"CarEntity">>], target, kwargs.d)
          IN /\ kwargs.t = "dict"
             /\ target' = r.values
             /\ conv' = [t |-> "from_dict", kwargs |-> kwargs.d, round_trip |-> TRUE,
                         outcome |-> r.outcome]
    /\ UNCHANGED <<graph, adminVars, pageVars, reflectVars, serviceVars>>

NextFromDict == FromDict \/ RoundTrip

SpecFromDict == InitConvert /\ [][NextFromDict]_vars

(***************************************************************************)
(* The list fields of an admin page and AdminPage.find.  A page class is   *)
(* [entity, register_name, name, methods, list_fields, list_temp_fields,   *)
(*  default_list_fields]; an item of its list fields is a column attribute *)
(* or hybrid property (it has a `key`) or a string.                        *)
(***************************************************************************)
coreVars == <<adminVars, pageVars, reflectVars, convertVars>>

CoreIdle == AdminIdle /\ PageIdle /\ ReflectIdle /\ ConvertIdle

\* the variables of the parts above packaging, authentication, audit and hashing.
earlierVars == <<coreVars, findVars, componentVars, requestVars>>

EarlierIdle == CoreIdle /\ FindIdle /\ ComponentsIdle /\ RequestsIdle

\* a column attribute or an expression level hybrid property of the entity.
Field(key) == [t |-> "field", key |-> key]
\* a python str.
Str(s) == [t |-> "str", s |-> s]

\* str.isspace()
isspace(s) == Len(s) > 0 /\ \A i \in DOMAIN s : s[i] = " "

\* value in (None, '') or value.isspace()
is_blank(value) == value = None \/ value.s = <<>> \/ isspace(value.s)

\* AdminPage._is_valid_field
_is_valid_field(self, field) == field.t = "field"

\* AdminPage._is_valid_method: the name is that of a callable attribute.
_is_valid_method(self, name) == name \in self.methods

\* AdminPage._extract_field_names
_extract_field_names(self, fields, allow_string) ==
    LET valid(item) == \/ _is_valid_field(self, item)
                       \/ allow_string /\ item.t = "str" /\ _is_valid_method(self, item.s)
    IN IF \A i \in DOMAIN fields : valid(fields[i])
       THEN List([i \in DOMAIN fields |->
                     IF _is_valid_field(self, fields[i]) THEN fields[i].key ELSE fields[i].s])
       ELSE Raised("InvalidListFieldError")

\* AdminPage._get_default_list_fields: the fields the entity provides by default.
_get_default_list_fields(self) == self.default_list_fields

\* AdminPage._get_list_field_names
_get_list_field_names(self) ==
    _extract_field_names(self,
                         IF self.list_fields = <<>>
                         THEN _get_default_list_fields(self) ELSE self.list_fields,
                         TRUE)

\* AdminPage._get_list_temp_field_names
_get_list_temp_field_names(self) ==
    _extract_field_names(self, self.list_temp_fields, FALSE)

\* AdminPage._get_list_fields
_get_list_fields(self) ==
    IF self.list_fields = <<>>
    THEN _get_default_list_fields(self)
    ELSE SelectSeq(self.list_fields, LAMBDA item : _is_valid_field(self, item))

\* AdminPage._get_list_temp_fields
_get_list_temp_fields(self) ==
    SelectSeq(self.list_temp_fields, LAMBDA item : _is_valid_field(self, item))

\* _get_selectable_fields that returns the fields it found, however few.
_get_selectable_fields_unchecked(self) ==
    List(_get_list_fields(self) \o _get_list_temp_fields(self))

\* AdminPage._get_selectable_fields
_get_selectable_fields(self) ==
    LET results == _get_list_fields(self) \o _get_list_temp_fields(self)
    IN IF Len(results) <= 0 THEN Raised("ListFieldRequiredError") ELSE List(results)

\* AdminPage.__populate_caches: what it raises, or None.
__populate_caches(self) ==
    FirstRaised(<<_get_list_field_names(self), _get_list_temp_field_names(self),
                  _get_selectable_fields(self)>>)

\* AdminPage.__init__: how the construction ends.
__init__(self) ==
    IF ~self.entity THEN "InvalidAdminEntityTypeError"
    ELSE IF is_blank(self.register_name) THEN "AdminRegisterNameRequiredError"
    ELSE IF is_blank(self.name) THEN "AdminNameRequiredError"
    ELSE IF __populate_caches(self) # None THEN __populate_caches(self).error
    ELSE "ok"

\* the items a page lists: a field, the name of a method of the page, and a
\* string that names nothing.
ListItems == {Field(<<"a">>), Str(<<"m">>), Str(<<"x">>)}

\* the tuples of at most MaxFields items.
FieldTuples == UNION {[1..n -> ListItems] : n \in 0..MaxFields}

\* the AdminPage subclasses to construct; `entity` says whether the entity is a
\* subclass of BaseEntity.
PageClasses ==
    [entity : BOOLEAN,
     register_name : {None, Str(<<>>), Str(<<" ">>), Str(<<"p">>)},
     name : {None, Str(<<"P">>)},
     methods : {{<<"m">>}},
     list_fields : FieldTuples,
     list_temp_fields : FieldTuples,
     default_list_fields : {<<>>, <<Field(<<"a">>)>>}]

\* find without the validation of the filters before the query is built.
find_steps_query_first ==
    <<"query", "_validate_filters", "_perform_joins", "_filter_query",
      "_perform_order_by", "_paginate_query", "all", "_process_find_results">>

\* AdminPage.find: the calls it makes, in order.
find_steps ==
    <<"_validate_filters", "query", "_perform_joins", "_filter_query",
      "_perform_order_by", "_paginate_query", "all", "_process_find_results">>

\* what a step of find raises when it fails.
step_error(self, step) ==
    IF step = "_validate_filters" THEN "ValidationError" ELSE "Error"

InitFind ==
    /\ CoreIdle /\ ComponentsIdle /\ RequestsIdle /\ SystemIdle
    /\ list_page \in {[class |-> c, outcome |-> "new"] : c \in PageClasses}
    /\ find_run = NoFind

\* the page class is instantiated: AdminPage.__init__.
Construct ==
    /\ list_page.outcome = "new"
    /\ list_page' = [list_page EXCEPT !.outcome = __init__(list_page.class)]
    /\ UNCHANGED <<find_run, coreVars, componentVars, requestVars, systemVars>>

\* find is called on the constructed page.
Find ==
    /\ list_page.outcome = "ok"
    /\ find_run.pc = 0
    /\ find_run' = [pc |-> 1, trace |-> <<>>, outcome |-> "running"]
    /\ UNCHANGED <<list_page, coreVars, componentVars, requestVars, systemVars>>

\* the next call of find is made; it returns or raises.  Building the query asks
\* for the selectable fields of the page.
FindStep ==
    /\ find_run.pc \in DOMAIN find_steps
    /\ \E succeeds \in BOOLEAN :
          LET step == find_steps[find_run.pc]
              trace == Append(find_run.trace, step)
              fields == _get_selectable_fields(list_page.class)
          IN find_run' =
                IF step = "query" /\ fields.t = "error"
                THEN [pc |-> 0, trace |-> trace, outcome |-> fields.error]
                ELSE IF ~succeeds
                THEN [pc |-> 0, trace |-> trace,
                      outcome |-> step_error(list_page.class, step)]
                ELSE IF find_run.pc = Len(find_steps)
                THEN [pc |-> 0, trace |-> trace, outcome |-> "returned"]
                ELSE [find_run EXCEPT !.pc = @ + 1, !.trace = trace]
    /\ UNCHANGED <<list_page, coreVars, componentVars, requestVars, systemVars>>

NextFind == Construct \/ Find \/ FindStep

SpecFind == InitFind /\ [][NextFind]_vars

(***************************************************************************)
(* Components.  A component instance is [cls, id]; the application keeps   *)
(* the instances by component id.                                          *)
(***************************************************************************)
\* pyrin.settings.static.DEFAULT_COMPONENT_KEY
DEFAULT_COMPONENT_KEY == [t |-> "DEFAULT_COMPONENT_KEY"]

\* the plain boolean True.
PlainTrue == [t |-> "bool", v |-> TRUE]

\* make_component_id that leaves the key empty when none is given.
make_component_id_without_default(component_name, options) ==
    IF component_name = None \/ \A i \in DOMAIN component_name.s : component_name.s[i] = " "
    THEN Raised("InvalidComponentNameError")
    ELSE [t |-> "id", name |-> component_name.s,
          key |-> DictGet(options, "component_custom_key", None)]

\* Component.make_component_id: the id (component_name, component_custom_key).
make_component_id(component_name, options) ==
    IF component_name = None \/ \A i \in DOMAIN component_name.s : component_name.s[i] = " "
    THEN Raised("InvalidComponentNameError")
    ELSE [t |-> "id", name |-> component_name.s,
          key |-> DictGet(options, "component_custom_key", DEFAULT_COMPONENT_KEY)]

\* application_services.register_component: the components it leaves and how it
\* ends.  A registered id without replace=True is a duplicate.
register_component(registered, instance, options) ==
    IF instance.id \in DOMAIN registered /\ DictGet(options, "replace", PlainFalse) # PlainTrue
    THEN [components |-> registered, outcome |-> "DuplicateComponentIDError"]
    ELSE [components |-> With(registered, instance.id, instance), outcome |-> "ok"]

\* the keyword arguments given to the decorator.
ComponentOptions ==
    {o \in UNION {[chosen -> {DEFAULT_COMPONENT_KEY, IntValue(1), PlainTrue, PlainFalse}] :
                     chosen \in SUBSET {"component_custom_key", "replace"}} :
        /\ "component_custom_key" \in DOMAIN o
               => o["component_custom_key"] \in {DEFAULT_COMPONENT_KEY, IntValue(1)}
        /\ "replace" \in DOMAIN o => o["replace"] \in {PlainTrue, PlainFalse, IntValue(1)}}

InitComponents == CoreIdle /\ FindIdle /\ ComponentsIdle /\ RequestsIdle /\ SystemIdle

\* @component(component_name, **kwargs) decorates the class cls: an instance of
\* cls is made, which makes its id, and is registered.
Component ==
    /\ \E cls \in {"X", "Y"}, options \in ComponentOptions,
          component_name \in {None, Str(<<" ">>), Str(<<"d", "b">>), Str(<<"a", "p", "i">>)} :
          LET id == make_component_id(component_name, options)
              r == register_component(components, [cls |-> cls, id |-> id], options)
          IN IF id.t = "error"
             THEN /\ components' = components
                  /\ component_call' = [cls |-> cls, component_name |-> component_name,
                                        options |-> options, outcome |-> id.error]
             ELSE /\ components' = r.components
                  /\ component_call' = [cls |-> cls, component_name |-> component_name,
                                        options |-> options, outcome |-> r.outcome]
    /\ UNCHANGED <<coreVars, findVars, requestVars, systemVars>>

NextComponents == Component

SpecComponents == InitComponents /\ [][NextComponents]_vars

(***************************************************************************)
(* The end of a request: the transaction of its session.  A response is    *)
(* [status_code, body]; the session holds `pending` changes not yet        *)
(* written.  `raises` tells, for each call finalize_transaction makes,     *)
(* whether it returns ("ok") or what it raises.                            *)
(***************************************************************************)
\* ClientErrorResponseCodeEnum.BAD_REQUEST
BAD_REQUEST == 400

\* ServerErrorResponseCodeEnum.INTERNAL_SERVER_ERROR
INTERNAL_SERVER_ERROR == 500

\* response_utils.make_exception_response(error, code=...): a response made of
\* the exception.
make_exception_response(error, code) ==
    [t |-> "response", status_code |-> code, body |-> [t |-> "exception", error |-> error]]

\* the calls finalize_transaction makes, in the order it makes the first three.
Acquire == <<"get_current_request", "get_current_store", "get_session_factory">>

\* the test of line 138 taken as `>`.
is_failed_above_bad_request(response) == response.status_code > BAD_REQUEST

\* response.status_code >= ClientErrorResponseCodeEnum.BAD_REQUEST
is_failed(response) == response.status_code >= BAD_REQUEST

\* the inner try block of finalize_transaction with its except DatabaseError
\* clause: the calls made on the store and the errors raised, the last one
\* being the one that leaves the block.
inner_try(response, raises) ==
    LET ending == IF is_failed(response) THEN "rollback" ELSE "commit"
    IN IF raises[ending] = "ok"
       THEN [calls |-> <<ending>>, errors |-> <<>>, by |-> <<>>]
       ELSE IF raises[ending] = "DatabaseError"
            THEN [calls |-> <<ending, "rollback">>,
                  errors |-> IF raises["rollback_again"] = "ok"
                             THEN <<"DatabaseError">>
                             ELSE <<"DatabaseError", raises["rollback_again"]>>,
                  by |-> IF raises["rollback_again"] = "ok"
                         THEN <<ending>> ELSE <<ending, "rollback">>]
            ELSE [calls |-> <<ending>>, errors |-> <<raises[ending]>>, by |-> <<ending>>]

\* a finally clause that is skipped when the block raised.
finally_remove_unless_raised(ended, raises) ==
    IF ended.errors # <<>> THEN ended
    ELSE [calls |-> Append(ended.calls, "remove"),
          errors |-> IF raises["remove"] = "ok" THEN ended.errors
                     ELSE Append(ended.errors, raises["remove"]),
          by |-> IF raises["remove"] = "ok" THEN ended.by ELSE Append(ended.by, "remove")]

\* the finally clause of the inner try block: session_factory.remove().
finally_remove(ended, raises) ==
    [calls |-> Append(ended.calls, "remove"),
     errors |-> IF raises["remove"] = "ok" THEN ended.errors
                ELSE Append(ended.errors, raises["remove"]),
     by |-> IF raises["remove"] = "ok" THEN ended.by ELSE Append(ended.by, "remove")]

\* an outer clause that catches DatabaseError only.
except_DatabaseError(error) ==
    IF error = "DatabaseError"
    THEN [logged |-> <<error>>, propagated |-> <<>>,
          returned |-> make_exception_response(error, INTERNAL_SERVER_ERROR)]
    ELSE [logged |-> <<>>, propagated |-> <<error>>, returned |-> None]

\* the outer `except Exception as error` clause: the error is logged and an
\* error response is returned.
except_Exception(error) ==
    [logged |-> <<error>>, propagated |-> <<>>,
     returned |-> make_exception_response(error, INTERNAL_SERVER_ERROR)]

\* DatabaseManager.finalize_transaction: the calls made, the errors raised, the
\* changes written, what is logged and the response returned.
finalize_transaction(response, pending, raises) ==
    LET failed == {i \in DOMAIN Acquire : raises[Acquire[i]] # "ok"}
        first == CHOOSE i \in failed : \A j \in failed : i <= j
        ending == IF is_failed(response) THEN "rollback" ELSE "commit"
        done == IF failed # {}
                THEN [calls |-> <<>>, errors |-> <<raises[Acquire[first]]>>,
                      by |-> <<Acquire[first]>>]
                ELSE finally_remove(inner_try(response, raises), raises)
        end == IF done.errors = <<>>
               THEN [logged |-> <<>>, propagated |-> <<>>, returned |-> response]
               ELSE except_Exception(done.errors[Len(done.errors)])
    IN [response |-> response, pending |-> pending, acquired |-> failed = {},
        calls |-> done.calls, errors |-> done.errors, by |-> done.by,
        written |-> IF failed = {} /\ ending = "commit" /\ raises["commit"] = "ok"
                    THEN pending ELSE 0,
        rolled_back |-> /\ failed = {}
                        /\ \/ ending = "rollback" /\ raises["rollback"] = "ok"
                           \/ raises[ending] = "DatabaseError" /\ raises["rollback_again"] = "ok",
        logged |-> end.logged, propagated |-> end.propagated, returned |-> end.returned]

\* the responses of the request handlers.
Responses ==
    {[t |-> "response", status_code |-> code, body |-> [t |-> "handler"]] :
        code \in {200, 302, 399, 400, 404, 500}}

\* how the calls of finalize_transaction may end; only the calls on the store
\* raise the DatabaseError the inner except clause is about.
Raises ==
    {raises \in [{"get_current_request", "get_current_store", "get_session_factory",
                  "rollback", "commit", "rollback_again", "remove"}
                     -> {"ok", "DatabaseError", "Exception"}] :
        \A i \in DOMAIN Acquire : raises[Acquire[i]] # "DatabaseError"}

InitRequests == CoreIdle /\ FindIdle /\ ComponentsIdle /\ RequestsIdle /\ SystemIdle

\* the request ends with the response of its handler.
FinalizeTransaction ==
    /\ \E response \in Responses, pending \in 0..MaxPending, raises \in Raises :
          transaction' = finalize_transaction(response, pending, raises)
    /\ UNCHANGED <<coreVars, findVars, componentVars, unknown_error, systemVars>>

NextRequests == FinalizeTransaction

SpecRequests == InitRequests /\ [][NextRequests]_vars

(***************************************************************************)
(* Unknown errors of the server.  An exception is [type, message].         *)
(***************************************************************************)
\* the message of lines 68-70.
GENERIC_ERROR_MESSAGE ==
    "Application has been encountered an error. Please contact the support team if problem persists."

\* response_utils.make_error_response(message, code=...): a response made of the
\* message.
make_error_response(message, code) ==
    [t |-> "response", status_code |-> code, body |-> [t |-> "message", message |-> message]]

\* handle_server_unknown_error that takes any true value of debug for True.
handle_server_unknown_error_on_truthy_debug(exception, debug) ==
    IF debug \notin {None, PlainFalse, IntValue(0)}
    THEN make_exception_response(exception, INTERNAL_SERVER_ERROR)
    ELSE make_error_response(GENERIC_ERROR_MESSAGE, INTERNAL_SERVER_ERROR)

\* APIManager.handle_server_unknown_error, debug being the value of
\* config_services.get_active('environment', 'debug').
handle_server_unknown_error(exception, debug) ==
    IF debug = PlainTrue
    THEN make_exception_response(exception, INTERNAL_SERVER_ERROR)
    ELSE make_error_response(GENERIC_ERROR_MESSAGE, INTERNAL_SERVER_ERROR)

\* the exceptions the server may meet.
Exceptions ==
    {[t |-> "exception", type |-> type, message |-> message] :
        type \in {"ValueError", "KeyError", "OperationalError"},
        message \in {"", "0", "no such user: admin", "connection to 10.0.0.5 refused",
                     "'password'", GENERIC_ERROR_MESSAGE}}

\* the values the debug key of the environment store may hold.
DebugValues == {PlainTrue, PlainFalse, None, IntValue(0), IntValue(1), Str(<<"T", "r", "u", "e">>)}

\* an exception nothing else handled reaches the api manager.
HandleServerUnknownError ==
    /\ \E exception \in Exceptions, debug \in DebugValues :
          unknown_error' = [exception |-> exception, debug |-> debug,
                            returned |-> handle_server_unknown_error(exception, debug)]
    /\ UNCHANGED <<coreVars, findVars, componentVars, transaction, systemVars>>

InitErrors == InitRequests

NextErrors == HandleServerUnknownError

SpecErrors == InitErrors /\ [][NextErrors]_vars

(***************************************************************************)
(* Packaging.  A package name is the tuple of its dotted parts; `packages` *)
(* holds the packages of the core group and of the application group in    *)
(* the order os.walk found them, and the DEPENDS of each package class.     *)
(***************************************************************************)
\* the packages that can lie under the application root; those under "p" are
\* core packages, the others application packages.
PackageNames == { <<"p">>, <<"p", "a">>, <<"p", "c">>, <<"q">>, <<"q", "b">> }

\* a package that is never found: ignored, or not there.
AbsentPackage == <<"z">>

\* what a package class declares in DEPENDS.
DependsChoices ==
    {{}} \cup {{name} : name \in PackageNames \cup {AbsentPackage}}
         \cup {{ <<"p">>, <<"q">> }}

\* PackagingManager._is_core_package, the core packages being those of "p".
_is_core_package(package_name) == package_name[1] = "p"

\* the orders os.walk can find the packages of a set in: top-down, a package
\* after the packages it lies in.
WalkOrders(found) ==
    {order \in [1..Cardinality(found) -> found] :
        /\ \A i, j \in DOMAIN order : i # j => order[i] # order[j]
        /\ \A i, j \in DOMAIN order :
              (/\ Len(order[i]) < Len(order[j])
               /\ SubSeq(order[j], 1, Len(order[i])) = order[i]) => i < j}

\* _is_dependencies_loaded that is content with one loaded dependency.
_is_dependencies_loaded_any(loaded_packages, dependencies) ==
    \E dependency \in dependencies : dependency \in Range(loaded_packages)

\* PackagingManager._is_dependencies_loaded
_is_dependencies_loaded(loaded_packages, dependencies) ==
    \A dependency \in dependencies : dependency \in Range(loaded_packages)

\* PackagingManager._is_parent_loaded
_is_parent_loaded(loaded_packages, package_name) ==
    LET parent_package == IF Len(package_name) = 1 THEN package_name
                          ELSE SubSeq(package_name, 1, Len(package_name) - 1)
    IN IF parent_package = package_name THEN TRUE
       ELSE _is_dependencies_loaded(loaded_packages, {parent_package})

\* the test of _load_components: the package is loaded now, not deferred.
is_loadable(loaded_packages, package, depends) ==
    /\ \/ depends = {}
       \/ _is_dependencies_loaded(loaded_packages, depends)
    /\ _is_parent_loaded(loaded_packages, package)

\* the loader before load_components is called.
NotLoading ==
    [state |-> "idle", group |-> 0, depth |-> 0, pass |-> <<>>, components |-> <<>>,
     dependent_components |-> <<>>, loaded_packages |-> <<>>]

InitPackaging ==
    /\ EarlierIdle
    /\ authentication = None /\ inspection = None /\ hashed = None
    /\ \E found \in SUBSET PackageNames :
          \E core \in WalkOrders({n \in found : _is_core_package(n)}),
             application \in WalkOrders({n \in found : ~_is_core_package(n)}),
             depends \in [found -> DependsChoices] :
             /\ Cardinality({n \in found : depends[n] # {}}) <= MaxDependents
             /\ packages = [core |-> core, application |-> application, depends |-> depends]
    /\ loader = NotLoading

\* load_components: _load_components is called with the core packages.
LoadComponents ==
    /\ loader.state = "idle"
    /\ loader' = [loader EXCEPT !.state = "loading", !.group = 1,
                                !.pass = packages.core, !.components = packages.core]
    /\ UNCHANGED <<packages, earlierVars, authentication, inspection, hashed>>

\* one turn of the loop of _load_components: the next package is loaded, or
\* put among the dependent components.
LoadPackage ==
    /\ loader.state = "loading" /\ loader.components # <<>>
    /\ LET package == Head(loader.components)
       IN IF is_loadable(loader.loaded_packages, package, packages.depends[package])
          THEN loader' = [loader EXCEPT !.components = Tail(@),
                                        !.loaded_packages = Append(@, package)]
          ELSE loader' = [loader EXCEPT !.components = Tail(@),
                                        !.dependent_components = Append(@, package)]
    /\ UNCHANGED <<packages, earlierVars, authentication, inspection, hashed>>

\* the end of the loop with dependent components: _load_components calls itself
\* with them.
LoadDependent ==
    /\ loader.state = "loading" /\ loader.components = <<>>
    /\ loader.dependent_components # <<>>
    /\ loader.depth < MaxRecursion
    /\ loader' = [loader EXCEPT !.depth = @ + 1,
                                !.pass = loader.dependent_components,
                                !.components = loader.dependent_components,
                                !.dependent_components = <<>>]
    /\ UNCHANGED <<packages, earlierVars, authentication, inspection, hashed>>

\* the same call when the interpreter's recursion limit is reached.
RecursionLimit ==
    /\ loader.state = "loading" /\ loader.components = <<>>
    /\ loader.dependent_components # <<>>
    /\ loader.depth = MaxRecursion
    /\ loader' = [loader EXCEPT !.state = "RecursionError"]
    /\ UNCHANGED <<packages, earlierVars, authentication, inspection, hashed>>

\* the end of the loop with nothing deferred: every call of _load_components
\* returns; load_components goes on with the application packages, or ends.
LoadNextGroup ==
    /\ loader.state = "loading" /\ loader.components = <<>>
    /\ loader.dependent_components = <<>>
    /\ IF loader.group = 1
       THEN loader' = [loader EXCEPT !.group = 2, !.depth = 0,
                                     !.pass = packages.application,
                                     !.components = packages.application]
       ELSE loader' = [loader EXCEPT !.state = "loaded"]
    /\ UNCHANGED <<packages, earlierVars, authentication, inspection, hashed>>

NextPackaging ==
    LoadComponents \/ LoadPackage \/ LoadDependent \/ RecursionLimit \/ LoadNextGroup

SpecPackaging == InitPackaging /\ [][NextPackaging]_vars

(***************************************************************************)
(* Token authentication.  A token is None or [header, payload]: header     *)
(* says whether its header is non-empty, payload is None when empty and     *)
(* [sub, type, auth, jti] otherwise, "none" standing for a missing claim.   *)
(* An authenticator is [name, _refresh_token].                              *)
(***************************************************************************)
\* payload.get(claim) of a token payload.
Claim(payload, claim) == IF payload = None THEN "none" ELSE payload[claim]

\* TokenAuthenticatorBase._validate_access_token
_validate_access_token(self, header, payload) ==
    IF ~header \/ payload = None \/ Claim(payload, "sub") = "none"
          \/ Claim(payload, "type") # "ACCESS"
    THEN Raised("InvalidAccessTokenError")
    ELSE IF Claim(payload, "auth") # self.name
    THEN Raised("InvalidTokenAuthenticatorError")
    ELSE None

\* TokenAuthenticatorBase._validate_refresh_token
_validate_refresh_token(self, header, payload) ==
    IF ~header \/ payload = None \/ Claim(payload, "sub") = "none"
          \/ Claim(payload, "type") # "REFRESH"
    THEN Raised("InvalidRefreshTokenError")
    ELSE IF Claim(payload, "auth") # self.name
    THEN Raised("InvalidTokenAuthenticatorError")
    ELSE None

\* TokenAuthenticatorBase._get_access_token_payload: the payload, or Raised.
_get_access_token_payload(self, access_token) ==
    IF access_token = None THEN Raised("AccessTokenRequiredError")
    ELSE LET checked == _validate_access_token(self, access_token.header, access_token.payload)
         IN IF checked # None THEN checked
            ELSE [t |-> "payload", payload |-> access_token.payload]

\* TokenAuthenticatorBase._get_refresh_token_payload: the payload, or Raised.
_get_refresh_token_payload(self, refresh_token) ==
    IF refresh_token = None THEN Raised("RefreshTokenRequiredError")
    ELSE LET checked == _validate_refresh_token(self, refresh_token.header,
                                                refresh_token.payload)
         IN IF checked # None THEN checked
            ELSE [t |-> "payload", payload |-> refresh_token.payload]

\* TokenAuthenticatorBase._get_credentials: the tokens read from the request.
_get_credentials(self, request) ==
    [access_token |-> request.headers,
     refresh_token |-> IF self._refresh_token THEN request.cookies ELSE None]

\* TokenAuthenticatorBase._get_payloads: both payloads, or Raised.
_get_payloads(self, access_token, refresh_token) ==
    LET access_token_payload == _get_access_token_payload(self, access_token)
        refresh_token_payload == IF self._refresh_token
                                 THEN _get_refresh_token_payload(self, refresh_token)
                                 ELSE [t |-> "payload", payload |-> None]
    IN IF access_token_payload.t = "error" THEN access_token_payload
       ELSE IF refresh_token_payload.t = "error" THEN refresh_token_payload
       ELSE [t |-> "payloads", access |-> access_token_payload.payload,
             refresh |-> refresh_token_payload.payload]

\* _validate_same_user that accepts any two tokens.
_validate_same_user_unchecked(access_token_payload, refresh_token_payload) == None

\* TokenAuthenticatorBase._validate_same_user
_validate_same_user(access_token_payload, refresh_token_payload) ==
    IF Claim(access_token_payload, "sub") # Claim(refresh_token_payload, "sub")
    THEN Raised("AccessAndRefreshTokensDoesNotBelongToSameUserError")
    ELSE None

\* TokenAuthenticatorBase._pre_authenticate, `revoked` being the token ids for
\* which _is_revoked answers True.
_pre_authenticate(self, access_token_payload, refresh_token_payload, revoked) ==
    LET same == IF self._refresh_token
                THEN _validate_same_user(access_token_payload, refresh_token_payload)
                ELSE None
        ids == {Claim(access_token_payload, "jti")}
                  \cup IF self._refresh_token
                       THEN {Claim(refresh_token_payload, "jti")} ELSE {}
    IN IF same # None THEN same
       ELSE IF ids \cap revoked # {} THEN Raised("UserCredentialsRevokedError")
       ELSE None

\* AuthenticatorBase._authenticate: the current user it sets, or the error it
\* raises.  `found` is what _get_user gives for the access token payload.
_authenticate(self, payloads, revoked, found) ==
    LET pre == _pre_authenticate(self, payloads.access, payloads.refresh, revoked)
        user_payload == payloads.access
        identity == IF found = "user" THEN Claim(user_payload, "sub") ELSE "none"
    IN IF pre # None THEN [error |-> pre.error, current_user |-> None]
       ELSE IF found = "none"
       THEN [error |-> "InvalidUserError", current_user |-> None]
       ELSE IF identity = "none"
       THEN [error |-> "InvalidUserIdentityError", current_user |-> None]
       ELSE [error |-> "none", current_user |-> [t |-> "user", identity |-> identity]]

\* AuthenticatorBase.authenticate
authenticate(self, request, revoked, found) ==
    LET credentials == _get_credentials(self, request)
        payloads == _get_payloads(self, credentials.access_token, credentials.refresh_token)
    IN IF payloads.t = "error"
       THEN [error |-> payloads.error, current_user |-> None]
       ELSE _authenticate(self, payloads, revoked, found)

\* the tokens a request carries; the access token has the id "a", the refresh
\* token the id "r".
Tokens(jti) ==
    {None} \cup
    {[header |-> header, payload |-> payload] :
        header \in BOOLEAN,
        payload \in {None} \cup
            [sub : {"none", "u1", "u2"}, type : {"ACCESS", "REFRESH"},
             auth : {"jwt", "other"}, jti : {jti}]}

InitAuthentication ==
    /\ EarlierIdle /\ PackagingIdle
    /\ authentication = None /\ inspection = None /\ hashed = None

\* a request is authenticated by the authenticator "jwt".
Authenticate ==
    /\ authentication = None
    /\ \E headers \in Tokens("a"), cookies \in Tokens("r"), refresh \in BOOLEAN,
          revoked \in {{}, {"a"}, {"r"}},
          found \in {"none", "user", "user_without_identity"} :
          LET self == [name |-> "jwt", _refresh_token |-> refresh]
              request == [headers |-> headers, cookies |-> cookies]
              result == authenticate(self, request, revoked, found)
          IN authentication' = [self |-> self, request |-> request, revoked |-> revoked,
                                found |-> found, error |-> result.error,
                                current_user |-> result.current_user]
    /\ UNCHANGED <<earlierVars, packagingVars, inspection, hashed>>

NextAuthentication == Authenticate

SpecAuthentication == InitAuthentication /\ [][NextAuthentication]_vars

(***************************************************************************)
(* Audit.  A hook is [audit_name, does]: its inspect returns succeeded True *)
(* ("succeeds"), False ("fails"), None ("unsure"), or raises ("raises").    *)
(* The options of inspect are the names passed with False.                  *)
(***************************************************************************)
\* options.get(name, True) is True, the options passing False for `off`.
is_on(off, name) == name \notin off

\* the loop body of _inspect_packages without its try block: what a hook
\* raises leaves the loop.
inspect_hook_without_try(so_far, hook, off) ==
    IF ~is_on(off, hook.audit_name) THEN so_far
    ELSE IF hook.does = "raises"
    THEN [so_far EXCEPT !.raised = TRUE]
    ELSE [data |-> With(so_far.data, hook.audit_name,
                        [status |-> "result", error |-> "", traceback |-> FALSE]),
          all_succeeded |-> so_far.all_succeeded /\ hook.does # "fails",
          raised |-> FALSE]

\* the loop body of _inspect_packages for one hook: the data and all_succeeded
\* after it, and whether an exception leaves the loop.
inspect_hook(so_far, hook, off) ==
    IF ~is_on(off, hook.audit_name) THEN so_far
    ELSE IF hook.does = "raises"
    THEN [data |-> With(so_far.data, hook.audit_name,
                        [status |-> "FAILED", error |-> hook.audit_name,
                         traceback |-> is_on(off, "traceback")]),
          all_succeeded |-> FALSE,
          raised |-> FALSE]
    ELSE [data |-> With(so_far.data, hook.audit_name,
                        [status |-> "result", error |-> "", traceback |-> FALSE]),
          all_succeeded |-> so_far.all_succeeded /\ hook.does # "fails",
          raised |-> FALSE]

RECURSIVE _inspect_packages(_, _, _)
\* AuditManager._inspect_packages over the hooks left, from what the hooks
\* before them gave.
_inspect_packages(hooks, off, so_far) ==
    IF hooks = <<>> \/ so_far.raised THEN so_far
    ELSE _inspect_packages(Tail(hooks), off, inspect_hook(so_far, Head(hooks), off))

\* the sections inspect writes itself, after the hooks.
InspectSections == {"application", "packages", "framework", "python", "platform"}

\* AuditManager.inspect: the data of the hooks, the data returned and the
\* status code, `status_code` being status_services.get_status_code().
inspect(hooks, off, status_code) ==
    LET inspected == _inspect_packages(hooks, off,
                                       [data |-> EmptyDict, all_succeeded |-> TRUE,
                                        raised |-> FALSE])
        written == {name \in InspectSections : name = "platform" \/ is_on(off, name)}
    IN [hooks_data |-> inspected.data, raised |-> inspected.raised,
        data |-> [name \in DOMAIN inspected.data \cup written |->
                     IF name \in written
                     THEN [status |-> "info", error |-> "", traceback |-> FALSE]
                     ELSE inspected.data[name]],
        status_code |-> IF ~inspected.all_succeeded THEN INTERNAL_SERVER_ERROR
                        ELSE status_code]

\* the audit names of the registered hooks.
AuditNames == {"database", "caching", "application"}

\* the registered hooks: at most MaxHooks, each of a name of its own.
Hooks ==
    {hooks \in UNION {[1..n -> [audit_name : AuditNames,
                                does : {"succeeds", "fails", "unsure", "raises"}]] :
                         n \in 0..MaxHooks} :
        \A i, j \in DOMAIN hooks : i # j => hooks[i].audit_name # hooks[j].audit_name}

InitAudit ==
    /\ EarlierIdle /\ PackagingIdle
    /\ authentication = None /\ inspection = None /\ hashed = None

\* audit_services.inspect(**options)
Inspect ==
    /\ inspection = None
    /\ \E hooks \in Hooks, off \in SUBSET (AuditNames \cup {"traceback"}),
          status_code \in {200, 201} :
          LET result == inspect(hooks, off, status_code)
          IN inspection' = [hooks |-> hooks, off |-> off, normal |-> status_code,
                            hooks_data |-> result.hooks_data, data |-> result.data,
                            status_code |-> result.status_code, raised |-> result.raised]
    /\ UNCHANGED <<earlierVars, packagingVars, authentication, hashed>>

NextAudit == Inspect

SpecAudit == InitAudit /\ [][NextAudit]_vars

(***************************************************************************)
(* The PBKDF2 hashing handler (security/hashing/handlers/pbkdf2.py).       *)
(* A str is a sequence of characters and a bytes value a sequence of byte  *)
(* numbers; encode and decode convert between the two.                     *)
(***************************************************************************)
\* the characters the handler writes, with their code points in
\* APPLICATION_ENCODING.
Ord(char) ==
    CASE char = "$" -> 36
      [] char = "0" -> 48 [] char = "1" -> 49 [] char = "2" -> 50
      [] char = "3" -> 51 [] char = "4" -> 52 [] char = "5" -> 53
      [] char = "6" -> 54 [] char = "7" -> 55 [] char = "8" -> 56
      [] char = "9" -> 57
      [] char = "B" -> 66 [] char = "D" -> 68 [] char = "F" -> 70
      [] char = "K" -> 75 [] char = "P" -> 80
      [] char = "a" -> 97 [] char = "c" -> 99 [] char = "d" -> 100
      [] char = "h" -> 104 [] char = "m" -> 109 [] char = "r" -> 114
      [] char = "s" -> 115

Chars ==
    {"$", "0", "1", "2", "3", "4", "5", "6", "7", "8", "9", "B", "D", "F", "K",
     "P", "a", "c", "d", "h", "m", "r", "s"}

DigitChars == <<"0", "1", "2", "3", "4", "5", "6", "7", "8", "9">>

\* text.encode(APPLICATION_ENCODING)
encode(text) == [i \in DOMAIN text |-> Ord(text[i])]

\* value.decode(APPLICATION_ENCODING)
decode(value) ==
    [i \in DOMAIN value |-> CHOOSE char \in Chars : Ord(char) = value[i]]

\* str(number) of a number that is not negative.
RECURSIVE str(_)
str(number) ==
    IF number < 10 THEN <<DigitChars[number + 1]>>
    ELSE str(number \div 10) \o <<DigitChars[(number % 10) + 1]>>

IsDigits(value) ==
    /\ value # <<>>
    /\ \A i \in DOMAIN value : value[i] \in 48..57

\* int(value) of a bytes value made of digits.
RECURSIVE int(_)
int(value) ==
    IF value = <<>> THEN 0
    ELSE 10 * int(SubSeq(value, 1, Len(value) - 1)) + (value[Len(value)] - 48)

\* value.count(separator) for a separator of one byte.
count(value, separator) == Cardinality({i \in DOMAIN value : value[i] = separator})

\* separator.join(parts)
RECURSIVE join(_, _)
join(separator, parts) ==
    IF parts = <<>> THEN <<>>
    ELSE IF Len(parts) = 1 THEN parts[1]
    ELSE parts[1] \o <<separator>> \o join(separator, Tail(parts))

\* value.split(separator, maxsplit)
RECURSIVE split(_, _, _)
split(value, separator, maxsplit) ==
    IF maxsplit = 0 \/ count(value, separator) = 0 THEN <<value>>
    ELSE LET at == CHOOSE i \in DOMAIN value :
                       /\ value[i] = separator
                       /\ \A j \in 1..(i - 1) : value[j] # separator
         IN <<SubSeq(value, 1, at - 1)>>
               \o split(SubSeq(value, at + 1, Len(value)), separator, maxsplit - 1)

\* self._separator
_separator == Ord("$")

\* self._format, as its separators and the names between them.
_format ==
    <<"$", "handler_name", "$", "internal_algorithm", "$", "rounds", "$",
      "salt_length", "$", "salt-text_hash">>

_get_algorithm == <<"P", "B", "K", "D", "F", "2">>

\* the names of hashlib.algorithms_guaranteed the model knows.
algorithms_guaranteed == {<<"s", "h", "a", "1">>, <<"m", "d", "5">>}

\* the bytes salts and digests are made of: the separator, a digit and a
\* byte that is neither.
HashBytes == <<36, 55, 0>>

BytesUpTo(length) == UNION {[1..n -> Range(HashBytes)] : n \in 0..length}

RECURSIVE SumOf(_)
SumOf(value) == IF value = <<>> THEN 0 ELSE Head(value) + SumOf(Tail(value))

\* hashlib.pbkdf2_hmac: a digest of two bytes that its four inputs determine.
pbkdf2_hmac(internal_algorithm, password, salt, rounds) ==
    LET mixed == SumOf(encode(internal_algorithm)) + 3 * SumOf(password)
                    + 5 * SumOf(salt) + 7 * Len(salt) + 11 * rounds
    IN <<HashBytes[(mixed % 3) + 1], HashBytes[((mixed \div 3) % 3) + 1]>>

_extract_attributes(options, config) ==
    [internal_algorithm |->
         IF options.internal_algorithm = None THEN config.pbkdf2_internal_algorithm
         ELSE options.internal_algorithm.v,
     rounds |-> IF options.rounds = None THEN config.pbkdf2_rounds
                ELSE options.rounds.v,
     salt_length |-> IF options.salt_length = None THEN config.pbkdf2_salt_length
                     ELSE options.salt_length.v]

\* the error _validate_attributes raises, "none" when it returns.
_validate_attributes(internal_algorithm, rounds, salt_length) ==
    IF internal_algorithm \notin algorithms_guaranteed
    THEN "InvalidPBKDF2InternalAlgorithmError"
    ELSE IF rounds < 1 THEN "InvalidHashingRoundsCountError"
    ELSE IF salt_length < 1 THEN "InvalidHashingSaltLengthError"
    ELSE "none"

_make_final_hash(internal_algorithm, rounds, salt, text_hash) ==
    <<_separator>> \o join(_separator,
        <<encode(_get_algorithm),
          encode(internal_algorithm),
          encode(str(rounds)),
          encode(str(Len(salt))),
          salt \o text_hash>>)

Parts(internal_algorithm, rounds, salt, text_hash) ==
    [t |-> "parts", internal_algorithm |-> internal_algorithm, rounds |-> rounds,
     salt |-> salt, text_hash |-> text_hash]

_extract_parts_splitting_every_separator(full_hashed_value) ==
    LET separator_count == count(_format, "$")
    IN IF \/ count(full_hashed_value, _separator) < separator_count
          \/ full_hashed_value[1] # _separator
       THEN Raised("InvalidPBKDF2HashError")
       ELSE LET parts == split(full_hashed_value, _separator,
                               count(full_hashed_value, _separator))
            IN IF Len(parts) # separator_count + 1 THEN Raised("ValueError")
               ELSE IF decode(parts[2]) # _get_algorithm
               THEN Raised("InvalidHashingHandlerError")
               ELSE IF ~IsDigits(parts[5]) \/ ~IsDigits(parts[4])
               THEN Raised("ValueError")
               ELSE LET salt_length == int(parts[5])
                        cut == IF salt_length < Len(parts[6]) THEN salt_length
                               ELSE Len(parts[6])
                    IN Parts(decode(parts[3]), int(parts[4]),
                             SubSeq(parts[6], 1, cut),
                             SubSeq(parts[6], cut + 1, Len(parts[6])))

\* the parts of a full hashed value, or the error raised: int() of a field
\* that is not made of digits raises ValueError.
_extract_parts_from_final_hash(full_hashed_value) ==
    LET separator_count == count(_format, "$")
    IN IF \/ count(full_hashed_value, _separator) < separator_count
          \/ full_hashed_value[1] # _separator
       THEN Raised("InvalidPBKDF2HashError")
       ELSE LET parts == split(full_hashed_value, _separator, separator_count)
            IN IF decode(parts[2]) # _get_algorithm
               THEN Raised("InvalidHashingHandlerError")
               ELSE IF ~IsDigits(parts[5]) \/ ~IsDigits(parts[4])
               THEN Raised("ValueError")
               ELSE LET salt_length == int(parts[5])
                        cut == IF salt_length < Len(parts[6]) THEN salt_length
                               ELSE Len(parts[6])
                    IN Parts(decode(parts[3]), int(parts[4]),
                             SubSeq(parts[6], 1, cut),
                             SubSeq(parts[6], cut + 1, Len(parts[6])))

Bytes(value) == [t |-> "bytes", v |-> value]

\* a keyword argument that was passed.
Given(value) == [t |-> "given", v |-> value]

\* generate_hash(text, **options): the full hash, or the error raised;
\* random is what secure_random.get_bytes(length=salt_length) gives when it
\* is asked.
generate_hash(text, options, config, random) ==
    LET extracted == _extract_attributes(options, config)
        invalid == _validate_attributes(extracted.internal_algorithm,
                                        extracted.rounds, extracted.salt_length)
        salt == IF options.salt = None THEN random ELSE options.salt.v
    IN IF invalid # "none" THEN Raised(invalid)
       ELSE Bytes(_make_final_hash(
                      extracted.internal_algorithm, extracted.rounds, salt,
                      pbkdf2_hmac(extracted.internal_algorithm, text, salt,
                                  extracted.rounds)))

\* the errors is_match turns into False.
MatchErrors ==
    {"InvalidPBKDF2InternalAlgorithmError", "InvalidHashingRoundsCountError",
     "InvalidHashingSaltLengthError", "InvalidPBKDF2HashError",
     "InvalidHashingHandlerError"}

is_match(text, full_hashed_value, config) ==
    LET parts == _extract_parts_from_final_hash(full_hashed_value)
    IN IF parts.t = "error"
       THEN IF parts.error \in MatchErrors THEN PlainFalse ELSE parts
       ELSE LET new_full_hashed_value ==
                    generate_hash(text,
                                  [internal_algorithm |-> Given(parts.internal_algorithm),
                                   rounds |-> Given(parts.rounds),
                                   salt |-> Given(parts.salt),
                                   salt_length |-> None],
                                  config, <<>>)
            IN IF new_full_hashed_value.t = "error"
               THEN IF new_full_hashed_value.error \in MatchErrors THEN PlainFalse
                    ELSE new_full_hashed_value
               ELSE IF Bytes(full_hashed_value) = new_full_hashed_value
                    THEN PlainTrue ELSE PlainFalse

\* the texts hashed, encoded.
HashTexts == {<<97>>, <<97, 36>>}

\* the pbkdf2 section of the security configuration.
HashConfigs ==
    [pbkdf2_internal_algorithm : {<<"s", "h", "a", "1">>, <<"c", "r", "c">>},
     pbkdf2_rounds : {0, MaxRounds},
     pbkdf2_salt_length : {0, MaxSaltLength}]

\* the keyword arguments of generate_hash.
HashOptions ==
    [internal_algorithm : {None, Given(<<"m", "d", "5">>)},
     rounds : {None, Given(1)},
     salt : {None, Given(<<>>), Given(<<36>>), Given(<<55, 36>>)},
     salt_length : {None, Given(1)}]

InitHashing ==
    /\ EarlierIdle /\ PackagingIdle
    /\ authentication = None /\ inspection = None /\ hashed = None

\* hashing_services.generate_hash(text, **options)
GenerateHash ==
    /\ hashed = None
    /\ \E text \in HashTexts, options \in HashOptions, config \in HashConfigs,
          random \in BytesUpTo(MaxSaltLength) :
          /\ Len(random) = _extract_attributes(options, config).salt_length
          /\ hashed' = [op |-> "generate_hash", text |-> text, options |-> options,
                        config |-> config,
                        full |-> generate_hash(text, options, config, random),
                        parts |-> None, asked |-> None, matched |-> None]
    /\ UNCHANGED <<earlierVars, packagingVars, authentication, inspection>>

\* _make_final_hash of any valid algorithm, rounds, salt and digest.
MakeFinalHash ==
    /\ hashed = None
    /\ \E internal_algorithm \in algorithms_guaranteed, rounds \in 1..MaxRounds,
          salt \in BytesUpTo(MaxSaltLength), text_hash \in BytesUpTo(MaxSaltLength) :
          hashed' = [op |-> "_make_final_hash",
                     made |-> Parts(internal_algorithm, rounds, salt, text_hash),
                     full |-> Bytes(_make_final_hash(internal_algorithm, rounds,
                                                     salt, text_hash)),
                     parts |-> None, asked |-> None, matched |-> None]
    /\ UNCHANGED <<earlierVars, packagingVars, authentication, inspection>>

ExtractParts ==
    /\ hashed # None /\ hashed.full.t = "bytes" /\ hashed.parts = None
    /\ hashed' = [hashed EXCEPT !.parts = _extract_parts_from_final_hash(hashed.full.v)]
    /\ UNCHANGED <<earlierVars, packagingVars, authentication, inspection>>

\* hashing_services.is_match(text, full_hashed_value)
IsMatch ==
    /\ hashed # None /\ hashed.op = "generate_hash"
    /\ hashed.full.t = "bytes" /\ hashed.asked = None
    /\ \E text \in HashTexts :
          hashed' = [hashed EXCEPT !.asked = Bytes(text),
                                   !.matched = is_match(text, hashed.full.v,
                                                        hashed.config)]
    /\ UNCHANGED <<earlierVars, packagingVars, authentication, inspection>>

NextHashing == GenerateHash \/ MakeFinalHash \/ ExtractParts \/ IsMatch

SpecHashing == InitHashing /\ [][NextHashing]_vars

(***************************************************************************)
(* Properties of the admin manager.                                        *)
(***************************************************************************)
\* the page instances registered under a name or for an entity.
Registered == Instances(Registry)

\* C1: register(instance) without replace=True, when a page with the same
\* lower-cased register name or a page for the same entity is registered, raises
\* DuplicatedAdminPageError and leaves both registries exactly as they were.
C1_DuplicateRegisterRaisesAndKeeps ==
    [][(/\ last'.op = "register"
        /\ last'.instance \in DefaultPages
        /\ last'.replace # "True"
        /\ \/ get_register_name(last'.instance) \in DOMAIN admin_pages
           \/ get_entity(last'.instance) \in DOMAIN admin_entities)
       => (/\ last'.outcome = "DuplicatedAdminPageError"
           /\ admin_pages' = admin_pages
           /\ admin_entities' = admin_entities)]_vars

\* a duplicate registration was refused, by name and by entity, with other pages.
C1_Witness ==
    /\ last.op = "register"
    /\ last.outcome = "DuplicatedAdminPageError"
    /\ last.replace = "1"
    /\ get_register_name(last.instance) \in DOMAIN admin_pages
    /\ get_entity(last.instance) \in DOMAIN admin_entities
    /\ admin_pages[get_register_name(last.instance)] # last.instance
    /\ admin_entities[get_entity(last.instance)] # last.instance
    /\ Cardinality(Registered) = 2

\* C2: register(new, replace=True) over a registered page `old` of the same
\* register name ends with the name index mapping the name to new, the entity
\* index mapping new's entity to new, and old in neither index; a different page
\* registered for new's entity is removed from both indexes too.
C2_ReplaceSwapsBothIndexes ==
    [][(/\ last'.op = "register"
        /\ last'.instance \in DefaultPages
        /\ last'.replace = "True"
        /\ get_register_name(last'.instance) \in DOMAIN admin_pages)
       => LET new == last'.instance
              old == admin_pages[get_register_name(new)]
              others == IF get_entity(new) \in DOMAIN admin_entities
                        THEN {admin_entities[get_entity(new)]} ELSE {}
          IN /\ last'.outcome = "ok"
             /\ admin_pages'[get_register_name(new)] = new
             /\ admin_entities'[get_entity(new)] = new
             /\ \A p \in ({old} \cup others) \ {new} :
                   /\ p \notin Range(admin_pages')
                   /\ p \notin Range(admin_entities')]_vars

\* a replacing registration dropped two pages: the one of its name (bound to
\* another entity) and the one of its entity (under another name).
C2_Witness ==
    /\ last.op = "register"
    /\ last.replace = "True"
    /\ last.outcome = "ok"
    /\ Cardinality(last.removed) = 2
    /\ \E p \in last.removed :
          /\ get_register_name(p) = get_register_name(last.instance)
          /\ get_entity(p) # get_entity(last.instance)
    /\ Registered = {last.instance}

\* C3: a page whose entity does not have exactly one primary key column reports
\* has_get_permission, has_update_permission and has_remove_permission False,
\* whatever its permission flags are.
C3_CompositeKeyDisablesPermissions ==
    (permissions.of \in {"get", "update", "remove"}
        /\ Len(primary_key(page.entity)) # 1)
    => permissions.value = FALSE

\* a page over a composite primary key with all flags set was asked and refused.
C3_Witness ==
    /\ permissions.of = "update"
    /\ Len(primary_key(page.entity)) = 2
    /\ page.get_permission /\ page.update_permission /\ page.remove_permission
    /\ permissions.value = FALSE

\* the permission check an AdminManager operation rests on.
PermissionFor(op, admin) ==
    IF op = "get" THEN has_get_permission(admin)
    ELSE IF op = "create" THEN has_create_permission(admin)
    ELSE IF op = "update" THEN has_update_permission(admin)
    ELSE has_remove_permission(admin)

GuardedOps == {"get", "create", "update", "remove", "remove_bulk"}

\* C4: get, create, update, remove and remove_bulk raise
\* AdminOperationNotAllowedError and do not call the page's operation when the
\* page's permission check is false; no get, update, remove or remove_bulk
\* reaches a page whose entity has a composite primary key.
C4_DeniedOperationNeverReachesPage ==
    /\ (/\ last.op \in GuardedOps
        /\ lower(last.register_name) \in DOMAIN admin_pages
        /\ ~PermissionFor(last.op, admin_pages[lower(last.register_name)]))
       => (last.outcome = "AdminOperationNotAllowedError" /\ invoked = NoCall)
    /\ invoked.op \in {"get", "update", "remove", "remove_bulk"}
       => Len(primary_key(invoked.page.entity)) = 1

\* remove_bulk was refused on a page over a composite key whose flags allow it.
C4_Witness ==
    /\ last.op = "remove_bulk"
    /\ last.outcome = "AdminOperationNotAllowedError"
    /\ invoked = NoCall
    /\ lower(last.register_name) \in DOMAIN admin_pages
    /\ LET admin == admin_pages[lower(last.register_name)]
       IN admin.remove_permission /\ admin.create_permission
          /\ Len(primary_key(admin.entity)) = 2

\* whether two register names differ in letter case at most.
SameIgnoringCase(a, b) == lower(a) = lower(b)

\* C16: a manager operation asked for any letter-case variant of the register
\* name of a registered page finds that page, and registering without replace a
\* page whose register name equals that of a registered page up to letter case
\* raises DuplicatedAdminPageError and changes nothing.
C16_RegisterNamesIgnoreCase ==
    [][/\ last'.op \in GuardedOps =>
            \A p \in Registered :
                SameIgnoringCase(p.register_name, last'.register_name) =>
                    /\ last'.outcome # "AdminPageNotFoundError"
                    /\ last'.outcome = "ok" => invoked'.page = p
       /\ (/\ last'.op = "register"
           /\ last'.instance \in DefaultPages
           /\ last'.replace # "True"
           /\ \E p \in Registered :
                 SameIgnoringCase(p.register_name, last'.instance.register_name))
          => (/\ last'.outcome = "DuplicatedAdminPageError"
              /\ admin_pages' = admin_pages
              /\ admin_entities' = admin_entities)]_vars

\* a page for a new entity was refused because its register name is that of a
\* registered page in another letter case.
C16_Witness ==
    /\ last.op = "register"
    /\ last.outcome = "DuplicatedAdminPageError"
    /\ get_entity(last.instance) \notin DOMAIN admin_entities
    /\ \E p \in Registered :
          /\ p.register_name # last.instance.register_name
          /\ SameIgnoringCase(p.register_name, last.instance.register_name)

\* C20: after any sequence of register calls the name index and the entity index
\* hold the same page instances, each page p under p.get_register_name() in the
\* one and under p.get_entity() in the other.
C20_IndexesHoldSamePages ==
    /\ Range(admin_pages) = Range(admin_entities)
    /\ \A name \in DOMAIN admin_pages :
          LET p == admin_pages[name]
          IN /\ get_register_name(p) = name
             /\ get_entity(p) \in DOMAIN admin_entities
             /\ admin_entities[get_entity(p)] = p
    /\ \A entity \in DOMAIN admin_entities :
          LET p == admin_entities[entity]
          IN /\ get_entity(p) = entity
             /\ get_register_name(p) \in DOMAIN admin_pages
             /\ admin_pages[get_register_name(p)] = p

\* two pages are registered, a registration was just refused, and a page that is
\* not registered collides with one of them by name and with the other by entity.
C20_Witness ==
    /\ Cardinality(Registered) = 2
    /\ last.op = "register"
    /\ last.outcome = "DuplicatedAdminPageError"
    /\ \E p \in DefaultPages :
          /\ p \notin Registered
          /\ get_register_name(p) \in DOMAIN admin_pages
          /\ get_entity(p) \in DOMAIN admin_entities
          /\ admin_pages[get_register_name(p)] # admin_entities[get_entity(p)]

(***************************************************************************)
(* Properties of the attribute reflection.                                 *)
(***************************************************************************)
\* whether a tuple of names holds no name twice.
NoDuplicates(names) ==
    \A i, j \in DOMAIN names : names[i] = names[j] => i = j

\* the mapped attributes of the class under reflection.
MappedAttributes == Range(entity_class.attrs)

\* C8: all_attributes is the union of all_exposed_attributes and
\* all_not_exposed_attributes, which share no name: every attribute is in exactly
\* one of them, not exposed exactly when its name starts with an underscore or
\* its column is marked exposed=False.
C8_ExposedAndNotExposedPartition ==
    attributes.t = "cache" =>
        /\ attributes.all_attributes =
              attributes.all_exposed_attributes \o attributes.all_not_exposed_attributes
        /\ Range(attributes.all_exposed_attributes)
              \cap Range(attributes.all_not_exposed_attributes) = {}
        /\ \A d \in MappedAttributes :
              /\ d.key \in Range(attributes.all_attributes)
              /\ d.key \in Range(attributes.all_not_exposed_attributes)
                    <=> (startswith_underscore(d.key)
                            \/ (d.kind = "column" /\ ~d.exposed))

\* a class with an exposed attribute, a column hidden by exposed=False and an
\* attribute hidden by its name was reflected.
C8_Witness ==
    /\ attributes.t = "cache"
    /\ \E d \in MappedAttributes :
          d.kind = "column" /\ ~d.exposed /\ ~startswith_underscore(d.key)
             /\ ~d.primary_key /\ ~d.is_foreign_key
    /\ \E d \in MappedAttributes : startswith_underscore(d.key)
    /\ Len(attributes.all_exposed_attributes) >= 1
    /\ Len(attributes.all_not_exposed_attributes) >= 2

\* C9: primary key columns, foreign key columns, plain columns, hybrid
\* properties and relationships are pairwise disjoint, and no name appears twice
\* in all_attributes, also for a column that is a primary key and a foreign key.
C9_CategoriesDisjoint ==
    attributes.t = "cache" =>
        LET categories == <<Range(attributes.primary_key_columns),
                            Range(attributes.foreign_key_columns),
                            Range(attributes.all_columns),
                            Range(attributes.all_hybrid_properties),
                            Range(attributes.relationships)>>
        IN /\ \A i, j \in DOMAIN categories :
                 i # j => categories[i] \cap categories[j] = {}
           /\ NoDuplicates(attributes.all_attributes)

(***************************************************************************)
(* Properties of the conversion.                                           *)
(***************************************************************************)
\* the object and the class that are converted.
Car == graph.objects[1]
CarClass == graph.classes[<<"CarEntity">>]

\* the depth a to_dict call asked for.
RequestedDepth ==
    IF conv.options.depth = None THEN conv.default_depth ELSE conv.options.depth.v

\* C5: to_dict with depth > MAX_DEPTH on an entity with at least one relationship
\* raises InvalidDepthProvidedError, whatever the other options are.
C5_DepthAboveMaxAlwaysRaises ==
    (/\ conv.t = "to_dict"
     /\ RequestedDepth > MAX_DEPTH
     /\ Len(relationships(CarClass)) >= 1)
    => conv.result = Raised("InvalidDepthProvidedError")

\* the names a to_dict call asked for in `columns`, for the converted class.
RequestedNames ==
    LET columns == OfClass(conv.options.columns, CarClass)
    IN IF columns = None THEN {} ELSE columns.names

\* the attribute set a to_dict call resolves by its exposed_only option.
ResolvedAttributes ==
    IF conv.options.exposed_only = SECURE_FALSE
    THEN Range(all_attributes(CarClass)) ELSE Range(all_exposed_attributes(CarClass))

\* C6: to_dict with a `columns` request that holds a name outside the resolved
\* attribute set raises ColumnNotExistedError.
C6_UnknownColumnAlwaysRaises ==
    (/\ conv.t = "to_dict"
     /\ RequestedNames \ ResolvedAttributes # {})
    => conv.result = Raised("ColumnNotExistedError")

\* the exposed scalar attributes of the converted class, by category.
ExposedPk == Range(exposed_primary_key_columns(CarClass))
ExposedFk == Range(exposed_foreign_key_columns(CarClass))
ExposedPlain == Range(exposed_columns(CarClass))

\* C7 as stated: b.from_dict(**a.to_dict()) on a fresh b leaves every exposed
\* primary key column, foreign key column and plain column of b equal to a's.
C7_RoundTripAllExposedScalars ==
    (conv.t = "from_dict" /\ conv.round_trip)
    => \A k \in ExposedPk \cup ExposedFk \cup ExposedPlain : target[k] = Car.values[k]

\* C7 amended: b.from_dict(**a.to_dict()) on a fresh b leaves every exposed
\* foreign key column and exposed plain column of b equal to a's; an exposed
\* primary key column that is no foreign key keeps the value b had.
C7_RoundTripForeignKeysAndColumns ==
    (conv.t = "from_dict" /\ conv.round_trip)
    => /\ conv.outcome = "ok"
       /\ \A k \in ExposedFk \cup ExposedPlain : target[k] = Car.values[k]
       /\ \A k \in ExposedPk \ ExposedFk : target[k] = None

\* a round trip over a class with an exposed foreign key and an exposed plain
\* column was made.
C7_Witness ==
    /\ conv.t = "from_dict" /\ conv.round_trip
    /\ ExposedFk # {} /\ ExposedPlain # {}
    /\ \A k \in ExposedFk \cup ExposedPlain : target[k] # None

\* the keys of a from_dict call that are values for the entity.
ProvidedKeys == DOMAIN conv.kwargs \ FromDictKeywords

\* the accessible attribute set of a from_dict call.
AccessibleKeys == Range(all_accessible_columns(CarClass, resolve_switches(conv.kwargs)))

\* whether a from_dict call passed ignore_invalid_column=SECURE_FALSE.
Strict == DictGet(conv.kwargs, <<"ignore_invalid_column">>, SECURE_TRUE) = SECURE_FALSE

\* C10: by default from_dict ignores the provided keys outside the accessible
\* attribute set and assigns the accessible ones; with
\* ignore_invalid_column=SECURE_FALSE it raises ColumnNotExistedError for any such
\* key and assigns no attribute.
C10_InvalidKeysIgnoredOrRaised ==
    conv.t = "from_dict" =>
        /\ ~Strict =>
              /\ conv.outcome = "ok"
              /\ \A k \in ProvidedKeys \cap AccessibleKeys : target[k] = conv.kwargs[k]
              /\ \A k \in DOMAIN target \ AccessibleKeys : target[k] = None
        /\ (Strict /\ ProvidedKeys \ AccessibleKeys # {}) =>
              /\ conv.outcome = "ColumnNotExistedError"
              /\ \A k \in DOMAIN target : target[k] = None

\* a strict from_dict call with an accessible key and an invalid key was refused.
C10_Witness ==
    /\ conv.t = "from_dict"
    /\ Strict
    /\ ProvidedKeys \cap AccessibleKeys # {}
    /\ ProvidedKeys \ AccessibleKeys # {}
    /\ conv.outcome = "ColumnNotExistedError"

\* the names of the attributes of a class that are not exposed: a leading
\* underscore, or a column declared with exposed=False.
NotExposedNames(cls) ==
    {cls.attrs[i].key : i \in {j \in DOMAIN cls.attrs :
        startswith_underscore(cls.attrs[j].key) \/ ~cls.attrs[j].exposed}}

\* whether the converted value `shown` is what to_dict makes of the attribute
\* value `held`.
Matches(shown, held) ==
    IF held.t = "entity" THEN shown.t = "dict"
    ELSE IF held.t = "list" THEN shown.t = "list" /\ Len(shown.items) = Len(held.items)
    ELSE shown = held

RECURSIVE HoldsNotExposed(_, _)
\* whether `result`, the conversion of object id, holds a not exposed attribute
\* of the object, or of an object nested in it, under the key to_dict gives it.
HoldsNotExposed(id, result) ==
    LET self == graph.objects[id]
        cls == graph.classes[self.cls]
        rename == _extract_conditions(cls, conv.options).rename
        key_of(n) == DictGet(rename, n, n)
        shows(n) == key_of(n) \in DOMAIN result.d
                       /\ Matches(result.d[key_of(n)], self.values[n])
        hidden == NotExposedNames(cls)
        visible == DOMAIN self.values \ hidden
    IN \/ \E n \in hidden :
             shows(n) /\ ~\E m \in visible : key_of(m) = key_of(n) /\ shows(m)
       \/ \E k \in DOMAIN result.d :
             LET v == result.d[k]
             IN \/ v.t = "dict" /\ HoldsNotExposed(3 - id, v)
                \/ v.t = "list" /\ \E i \in DOMAIN v.items : HoldsNotExposed(3 - id, v.items[i])

\* C11: unless exposed_only is exactly SECURE_FALSE, the result of to_dict holds
\* no not exposed attribute, at the top level or in any nested mapping.
C11_NotExposedNeverConverted ==
    (/\ conv.t = "to_dict"
     /\ conv.options.exposed_only # SECURE_FALSE
     /\ conv.result.t = "dict")
    => ~HoldsNotExposed(1, conv.result)

\* an object with a not exposed attribute was converted, exposed only, down to
\* itself again through its relationship.
C11_Witness ==
    /\ conv.t = "to_dict"
    /\ conv.options.exposed_only # SECURE_FALSE
    /\ conv.result.t = "dict"
    /\ NotExposedNames(CarClass) # {}
    /\ \E k \in DOMAIN conv.result.d :
          /\ conv.result.d[k].t = "dict"
          /\ \E c \in DOMAIN conv.result.d[k].d :
                LET back == conv.result.d[k].d[c]
                IN back.t = "list" /\ Len(back.items) > 0 /\ DOMAIN back.items[1].d # {}

\* the descriptor of the attribute `key` of the converted class.
CarAttr(key) ==
    CarClass.attrs[CHOOSE i \in DOMAIN CarClass.attrs : CarClass.attrs[i].key = key]

\* whether a from_dict call passed the keyword `name` with the value `value`.
Passed(name, value) == DictGet(conv.kwargs, name, None) = value

\* C12: from_dict leaves primary key columns, relationships, hybrid properties
\* and not exposed attributes unchanged, values for them being passed or not,
\* unless the switch of the category (ignore_pk, ignore_relationships or
\* exposed_only set to SECURE_FALSE) or populate_all=SECURE_TRUE was passed; a
\* hybrid property is never assigned.
C12_CategoriesNeedTheirSwitch ==
    conv.t = "from_dict" =>
        \A k \in DOMAIN target : target[k] # None =>
            LET all == Passed(<<"populate_all">>, SECURE_TRUE)
            IN /\ CarAttr(k).primary_key => all \/ Passed(<<"ignore_pk">>, SECURE_FALSE)
               /\ CarAttr(k).kind = "relationship" =>
                     all \/ Passed(<<"ignore_relationships">>, SECURE_FALSE)
               /\ k \in NotExposedNames(CarClass) =>
                     all \/ Passed(<<"exposed_only">>, SECURE_FALSE)
               /\ CarAttr(k).kind # "hybrid"

\* the names a to_dict call excluded, for the converted class.
ExcludedNames ==
    LET exclude == OfClass(conv.options.exclude, CarClass)
    IN IF exclude = None THEN {} ELSE exclude.names

\* C13: without renames, the keys of the result of to_dict are exactly the
\* requested columns minus the excluded ones when `columns` names any column,
\* also when all of them are excluded, and every applicable attribute minus the
\* excluded ones otherwise (relationships only at a depth above 0); no excluded
\* column is a key of the result.
C13_ConvertsRequestedMinusExcluded ==
    (/\ conv.t = "to_dict"
     /\ conv.result.t = "dict"
     /\ conv.options.rename = None)
    => LET chosen == IF RequestedNames # {}
                     THEN RequestedNames \ ExcludedNames
                     ELSE ResolvedAttributes \ ExcludedNames
           shown == IF RequestedDepth > 0
                    THEN chosen ELSE chosen \ Range(relationships(CarClass))
       IN /\ DOMAIN conv.result.d = shown
          /\ DOMAIN conv.result.d \cap ExcludedNames = {}

(***************************************************************************)
(* Properties of the admin page's list fields and of find.                 *)
(***************************************************************************)
\* the order of the steps of find.
FixedOrder ==
    <<"_validate_filters", "query", "_perform_joins", "_filter_query",
      "_perform_order_by", "_paginate_query", "all", "_process_find_results">>

\* C14: find validates the filters, builds the query from the selectable fields,
\* applies joins, filters and ordering, paginates, executes and serializes, in
\* this order; when the validation raises, no later step is taken.
C14_FindStepsInFixedOrder ==
    /\ Len(find_run.trace) <= Len(FixedOrder)
    /\ find_run.trace = SubSeq(FixedOrder, 1, Len(find_run.trace))
    /\ find_run.outcome = "returned" => find_run.trace = FixedOrder
    /\ find_run.outcome = "ValidationError" => find_run.trace = <<"_validate_filters">>

\* a find whose validation raised, and nothing else was done.
C14_Witness ==
    /\ find_run.outcome = "ValidationError"
    /\ find_run.trace = <<"_validate_filters">>

\* whether a page class lists no column attribute or hybrid property: none among
\* its list fields and list temp fields, and none by default when list_fields
\* is empty.
NoFieldProvided(class) ==
    /\ \A i \in DOMAIN class.list_fields : class.list_fields[i].t # "field"
    /\ \A i \in DOMAIN class.list_temp_fields : class.list_temp_fields[i].t # "field"
    /\ class.list_fields = <<>> => class.default_list_fields = <<>>

\* whether a page class has a valid entity, register name and name, and lists
\* only fields and (in list_fields) names of its methods.
WellFormed(class) ==
    /\ class.entity /\ ~is_blank(class.register_name) /\ ~is_blank(class.name)
    /\ \A i \in DOMAIN class.list_fields :
          class.list_fields[i].t = "str" => class.list_fields[i].s \in class.methods
    /\ \A i \in DOMAIN class.list_temp_fields : class.list_temp_fields[i].t = "field"

\* C15: a page whose list_fields and list_temp_fields provide no column attribute
\* or hybrid property is never constructed: __init__ raises, and it raises
\* ListFieldRequiredError when the page is valid otherwise (for example when
\* list_fields names only methods); find on a constructed page never raises
\* ListFieldRequiredError.
C15_NoSelectableFieldFailsConstruction ==
    /\ (list_page # None /\ list_page.outcome # "new" /\ NoFieldProvided(list_page.class))
       => /\ list_page.outcome # "ok"
          /\ WellFormed(list_page.class) => list_page.outcome = "ListFieldRequiredError"
    /\ find_run.outcome # "ListFieldRequiredError"

\* a page that lists only a method was refused by __init__.
C15_Witness ==
    /\ list_page # None
    /\ list_page.class.list_fields = <<Str(<<"m">>)>>
    /\ list_page.class.list_temp_fields = <<>>
    /\ list_page.outcome = "ListFieldRequiredError"

(***************************************************************************)
(* Properties of the components.                                           *)
(***************************************************************************)
\* the id of the component of a decorator call: the name and the custom key, the
\* default key when none is given.
CalledId(call) ==
    [t |-> "id", name |-> call.component_name.s,
     key |-> IF "component_custom_key" \in DOMAIN call.options
             THEN call.options["component_custom_key"] ELSE DEFAULT_COMPONENT_KEY]

\* whether a decorator call passed replace=True.
Replacing(call) == "replace" \in DOMAIN call.options /\ call.options["replace"] = PlainTrue

\* C17: registering a component whose id (name and custom key, the default key
\* when none is given) is the id of a registered component raises
\* DuplicateComponentIDError and changes nothing, unless replace=True is passed:
\* then the new instance takes the place of the old one under that id.
C17_DuplicateComponentNeedsReplace ==
    [][(/\ component_call' # component_call
        /\ component_call'.outcome # "InvalidComponentNameError"
        /\ CalledId(component_call') \in DOMAIN components)
       => IF Replacing(component_call')
          THEN /\ component_call'.outcome = "ok"
               /\ DOMAIN components' = DOMAIN components
               /\ \A id \in DOMAIN components :
                     components'[id] = IF id = CalledId(component_call')
                                       THEN [cls |-> component_call'.cls, id |-> id]
                                       ELSE components[id]
          ELSE /\ component_call'.outcome = "DuplicateComponentIDError"
               /\ components' = components]_vars

\* a component given the default key explicitly was refused as a duplicate of
\* one registered without a key, by another class.
C17_Witness ==
    /\ component_call # None
    /\ component_call.outcome = "DuplicateComponentIDError"
    /\ "component_custom_key" \in DOMAIN component_call.options
    /\ components[CalledId(component_call)].cls # component_call.cls

(***************************************************************************)
(* Properties of the end of a request.                                     *)
(***************************************************************************)
\* whether the call recorded in the transaction called `name` on the session.
Called(name) == \E i \in DOMAIN transaction.calls : transaction.calls[i] = name

GenericResponse ==
    [t |-> "response", status_code |-> 500,
     body |-> [t |-> "message", message |-> GENERIC_ERROR_MESSAGE]]

\* C19: handle_server_unknown_error always returns a response of status 500;
\* when the debug flag is not True its body is one fixed generic message
\* whatever the exception; the exception is in the body only when debug is True.
C19_UnknownErrorHidesDetailOutsideDebug ==
    unknown_error # None =>
        /\ unknown_error.returned.status_code = 500
        /\ unknown_error.debug # PlainTrue => unknown_error.returned = GenericResponse
        /\ unknown_error.returned.body.t = "exception" => unknown_error.debug = PlainTrue

\* an exception with a telling message met debug = 1, which is true but is not
\* True: the generic response was returned.
C19_Witness ==
    /\ unknown_error # None
    /\ unknown_error.debug = IntValue(1)
    /\ unknown_error.exception.message = "no such user: admin"
    /\ unknown_error.returned = GenericResponse

\* C21: finalize_transaction never lets an exception reach its caller: whatever
\* is raised while the request, the store or the session factory is obtained, or
\* by commit, rollback or remove, is logged and a response of status 500 made of
\* it is returned in place of the response passed in.
C21_FinalizeTransactionNeverRaises ==
    transaction # None =>
        /\ transaction.propagated = <<>>
        /\ transaction.errors # <<>> =>
              /\ transaction.logged = <<transaction.errors[Len(transaction.errors)]>>
              /\ transaction.returned.status_code = 500
              /\ transaction.returned.body.t = "exception"
              /\ transaction.returned # transaction.response

\* the commit of a request that succeeded raised something that is not a
\* DatabaseError; the caller got a response of status 500.
C21_Witness ==
    /\ transaction # None
    /\ transaction.response.status_code = 200
    /\ transaction.calls = <<"commit", "remove">>
    /\ transaction.errors = <<"Exception">>
    /\ transaction.returned.status_code = 500

\* the places of `name` among the calls recorded in the transaction.
Places(name) == {i \in DOMAIN transaction.calls : transaction.calls[i] = name}

\* C22: once the store and the session factory are obtained, remove is called
\* exactly once on every path and after every commit and rollback of the
\* request; a commit that raised DatabaseError is rolled back before it.
C22_RemoveOnceAndLast ==
    (transaction # None /\ transaction.acquired) =>
        /\ Cardinality(Places("remove")) = 1
        /\ Places("remove") = {Len(transaction.calls)}
        /\ (transaction.by # <<>> /\ transaction.by[1] = "commit"
               /\ transaction.errors[1] = "DatabaseError")
              => /\ Len(transaction.calls) = 3
                 /\ transaction.calls[2] = "rollback"

\* a commit raised DatabaseError: it was rolled back, then the session removed.
C22_Witness ==
    /\ transaction # None
    /\ transaction.calls = <<"commit", "rollback", "remove">>
    /\ transaction.by = <<"commit">>

(***************************************************************************)
(* Properties of the depth of a conversion.                                *)
(***************************************************************************)
\* what the to_dict call asked of the converted class.
Asked == requested(CarClass, conv.options)

\* the key a to_dict call writes the attribute `name` under.
KeyOf(name) == DictGet(Asked.rename, name, name)

\* the requested relationships whose key no other requested attribute is
\* renamed to.
OwnKeyRelationships ==
    {rel \in Asked.relationships :
        \A other \in (Asked.columns \cup Asked.relationships) \ {rel} :
            KeyOf(other) # KeyOf(rel)}

RECURSIVE Nesting(_)
\* how many levels of relationship values a converted value nests.
Nesting(value) ==
    IF value.t = "dict"
    THEN LET inner == {k \in DOMAIN value.d : value.d[k].t \in {"dict", "list"}}
             levels == {Nesting(value.d[k]) : k \in inner}
         IN IF inner = {} THEN 0
            ELSE 1 + CHOOSE n \in levels : \A m \in levels : m <= n
    ELSE IF value.t = "list"
    THEN LET levels == {Nesting(value.items[i]) : i \in DOMAIN value.items} \cup {0}
         IN CHOOSE n \in levels : \A m \in levels : m <= n
    ELSE 0

\* C23: to_dict follows relationships exactly `depth` levels: with depth 0 the
\* result holds no relationship value; with depth d >= 1 each requested
\* relationship holds to_dict of the related entities with depth d - 1 and the
\* other options unchanged, and nothing nests deeper than d levels.
C23_RelationshipsFollowedDepthLevels ==
    (conv.t = "to_dict" /\ conv.result.t = "dict") =>
        /\ RequestedDepth <= 0
              => \A key \in DOMAIN conv.result.d : conv.result.d[key].t = "int"
        /\ Nesting(conv.result) <= IF RequestedDepth > 0 THEN RequestedDepth ELSE 0
        /\ RequestedDepth >= 1 =>
              \A rel \in OwnKeyRelationships :
                 LET entities == related_entities(Car.values[rel])
                     below == [conv.options EXCEPT !.depth = IntValue(RequestedDepth - 1)]
                 IN conv.result.d[KeyOf(rel)] =
                       related_value(Car.values[rel],
                           [i \in DOMAIN entities |->
                               to_dict(graph, entities[i].id, below, conv.default_depth)])

\* a conversion of depth MAX_DEPTH over the cycle car - person - car nested
\* MAX_DEPTH levels.
C23_Witness ==
    /\ conv.t = "to_dict" /\ conv.result.t = "dict"
    /\ RequestedDepth = MAX_DEPTH
    /\ Nesting(conv.result) = MAX_DEPTH

\* the nested calls the to_dict call may have made.
NestedCalls == to_dict_calls(graph, 1, conv.options, conv.default_depth)

\* C24: to_dict ends on every entity graph, cyclic ones included: each nested
\* call is given the depth of its caller less one, none is given less than 0,
\* none is made from a depth above MAX_DEPTH, and the conversion has a result.
C24_ToDictEndsByDepth ==
    conv.t = "to_dict" =>
        /\ conv.result.t \in {"dict", "error"}
        /\ \A call \in NestedCalls :
              /\ call.depth = call.caller_depth - 1
              /\ call.depth >= 0
              /\ call.caller_depth <= MAX_DEPTH

\* a conversion went round the cycle car - person - car down to depth 0.
C24_Witness ==
    /\ conv.t = "to_dict" /\ conv.result.t = "dict"
    /\ \E call \in NestedCalls : call.callee = 1 /\ call.caller = 2
    /\ \E call \in NestedCalls : call.depth = 0 /\ call.caller_depth = 1
    /\ \E call \in NestedCalls : call.caller_depth = MAX_DEPTH

\* C25: the value to_dict gives a requested relationship it expands (depth > 0)
\* is None exactly when the attribute is None, an empty list exactly when it is
\* an empty collection, a list of as many mappings as the collection has
\* entities otherwise, and one mapping for a scalar relationship.
C25_RelationshipValueShapes ==
    (conv.t = "to_dict" /\ conv.result.t = "dict" /\ RequestedDepth >= 1) =>
        \A rel \in OwnKeyRelationships :
            LET value == Car.values[rel]
                shown == conv.result.d[KeyOf(rel)]
            IN /\ shown = None <=> value = None
               /\ shown = List(<<>>) <=> value = List(<<>>)
               /\ (value.t = "list" /\ value.items # <<>>) =>
                     /\ shown.t = "list"
                     /\ Len(shown.items) = Len(value.items)
                     /\ \A i \in DOMAIN shown.items : shown.items[i].t = "dict"
               /\ value.t = "entity" => shown.t = "dict"

\* a conversion expanded two relationships, one empty and one holding None.
C25_Witness ==
    /\ conv.t = "to_dict" /\ conv.result.t = "dict" /\ RequestedDepth >= 1
    /\ \E rel \in OwnKeyRelationships :
          Car.values[rel] = List(<<>>) /\ conv.result.d[KeyOf(rel)] = List(<<>>)
    /\ \E rel \in OwnKeyRelationships :
          Car.values[rel] = None /\ conv.result.d[KeyOf(rel)] = None

(***************************************************************************)
(* Properties of the packaging manager.                                    *)
(***************************************************************************)
\* the packages loaded before the i-th one.
LoadedBefore(i) == Range(SubSeq(loader.loaded_packages, 1, i - 1))

\* C26: a package is in the loaded packages only after every package of its
\* DEPENDS and after its parent package (a root package has none): in the load
\* order each package comes after its dependencies and its parent.
C26_LoadedAfterDependenciesAndParent ==
    loader # None =>
        \A i \in DOMAIN loader.loaded_packages :
            LET package == loader.loaded_packages[i]
            IN /\ packages.depends[package] \subseteq LoadedBefore(i)
               /\ Len(package) > 1
                     => SubSeq(package, 1, Len(package) - 1) \in LoadedBefore(i)

\* loading ended with one package loaded after the two it depends on, and a
\* core package loaded in a recursive pass after the later one it depends on.
C26_Witness ==
    /\ loader # None /\ loader.state = "loaded"
    /\ \E i \in DOMAIN loader.loaded_packages :
          /\ loader.loaded_packages[i] = <<"q", "b">>
          /\ packages.depends[<<"q", "b">>] = {<<"p">>, <<"q">>}
    /\ \E i, j \in DOMAIN loader.loaded_packages :
          /\ i < j
          /\ loader.loaded_packages[j] = <<"p", "a">>
          /\ loader.loaded_packages[i] = <<"p", "c">>
          /\ packages.depends[<<"p", "a">>] = {<<"p", "c">>}
          /\ packages.core = << <<"p">>, <<"p", "a">>, <<"p", "c">> >>

\* C27: _load_components always ends: every recursive pass over the dependent
\* packages loads at least one of them, whatever they depend on, and the
\* recursion never reaches the interpreter's limit.
C27_EveryPassLoadsAPackage ==
    loader # None =>
        /\ loader.state # "RecursionError"
        /\ (loader.state = "loading" /\ loader.depth > 0 /\ loader.components = <<>>)
              => Len(loader.dependent_components) < Len(loader.pass)

(***************************************************************************)
(* Properties of token authentication.                                     *)
(***************************************************************************)
\* a token that is present, has a header and a payload with an identity, the
\* given type and the name of the authenticator.
GoodToken(token, type) ==
    /\ token # None
    /\ token.header
    /\ token.payload # None
    /\ token.payload.sub # "none"
    /\ token.payload.type = type
    /\ token.payload.auth = authentication.self.name

\* every check of an authentication passed.
AllChecksPassed ==
    LET access == authentication.request.headers
        refresh == authentication.request.cookies
    IN /\ GoodToken(access, "ACCESS")
       /\ authentication.self._refresh_token =>
             /\ GoodToken(refresh, "REFRESH")
             /\ refresh.payload.sub = access.payload.sub
             /\ "r" \notin authentication.revoked
       /\ "a" \notin authentication.revoked
       /\ authentication.found = "user"

\* C28: authenticate sets the current user only if every check passed (access
\* token, refresh token when required, same user, not revoked, a user with an
\* identity); when a check fails an error is raised and no current user is set.
C28_CurrentUserOnlyAfterAllChecks ==
    authentication # None =>
        /\ authentication.current_user # None => AllChecksPassed
        /\ ~AllChecksPassed =>
              authentication.error # "none" /\ authentication.current_user = None
        /\ authentication.current_user # None =>
              /\ authentication.error = "none"
              /\ authentication.current_user.identity
                    = authentication.request.headers.payload.sub

\* two good tokens of two different users were refused.
C28_Witness ==
    /\ authentication # None
    /\ authentication.self._refresh_token
    /\ GoodToken(authentication.request.headers, "ACCESS")
    /\ GoodToken(authentication.request.cookies, "REFRESH")
    /\ authentication.error = "AccessAndRefreshTokensDoesNotBelongToSameUserError"
    /\ authentication.current_user = None

(***************************************************************************)
(* Properties of the audit manager.                                        *)
(***************************************************************************)
\* the hooks an inspection did inspect: those not passed with False.
Inspected ==
    {i \in DOMAIN inspection.hooks :
        inspection.hooks[i].audit_name \notin inspection.off}

C30_FinalHashRoundTrip ==
    hashed # None =>
        /\ hashed.op = "_make_final_hash" /\ hashed.parts # None =>
              hashed.parts = hashed.made
        /\ hashed.op = "generate_hash" /\ hashed.asked = Bytes(hashed.text)
              /\ hashed.options.salt_length = None =>
              hashed.matched = PlainTrue

\* a hash generated with a salt that holds the separator byte gave back its
\* salt and its rounds, and matched its text.
C30_Witness ==
    /\ hashed # None /\ hashed.op = "generate_hash"
    /\ hashed.options.salt # None /\ hashed.options.salt_length = None
    /\ _separator \in Range(hashed.options.salt.v)
    /\ hashed.parts # None /\ hashed.parts.t = "parts"
    /\ hashed.parts.salt = hashed.options.salt.v
    /\ _separator \in Range(hashed.parts.text_hash)
    /\ hashed.parts.rounds >= 10
    /\ hashed.asked = Bytes(hashed.text)
    /\ hashed.matched = PlainTrue

====
